---- MODULE Spec2Model ----
(***************************************************************************)
(* Song lookup of server/song_lookup.py: the chord-chart parser, the key   *)
(* detection, the chord simplifier and the Ultimate Guitar lookup.         *)
(*                                                                         *)
(* A Python str is a sequence of one-character strings.  Optional values   *)
(* (None or a value) are sequences of length 0 or 1.                       *)
(*                                                                         *)
(* parse_chord_chart reads raw_text.split("\n") line by line, in order,    *)
(* and never looks back or ahead, so the text is chosen line by line as    *)
(* the loop reaches it.  nlines, ntoks, nhdr, hdr_raw, line_end_chord      *)
(* and pre_chords are history variables: they record what has been         *)
(* read and take no part in any guard other than the bounds on the text.   *)
(* The arguments bpm and key are read only when the chart is built, and    *)
(* are chosen there; args records them.                                    *)
(*                                                                         *)
(* Spec is parse_chord_chart, SpecFn the pure helpers detect_key,          *)
(* simplify_chord and extract_bass_note, SpecLookup is lookup_song,        *)
(* SpecBacking the tools generate_backing_track and manual_chart of        *)
(* server/tools/backing_tracks.py, SpecWorkflow the tools social_clip and  *)
(* arrangement_template of server/tools/production_workflow.py.  Each      *)
(* specification leaves the variables of the others at their idle values.  *)
(***************************************************************************)
EXTENDS Integers, Sequences, FiniteSets, TLC

VARIABLES pc, sections, current_section, current_chords, tokens, ti,
          prev_chord, nlines, ntoks, nhdr, hdr_raw, line_end_chord,
          pre_chords, args, chart,
          fn, chord, chords, roots, ret,
          lpc, largs, search_page, url, chord_page, scraped, lresult, raised,
          bpc, bargs, inst_list, invalid, lookup_calls, bchart, bridge_calls,
          result, bret, braised,
          wpc, wargs, project_length, time_sel, wcalls, wret, wraised

parser_vars == <<pc, sections, current_section, current_chords, tokens, ti,
                 prev_chord, nlines, ntoks, nhdr, hdr_raw, line_end_chord,
                 pre_chords, args, chart>>

fn_vars == <<fn, chord, chords, roots, ret>>

lookup_vars == <<lpc, largs, search_page, url, chord_page, scraped, lresult,
                 raised>>

backing_vars == <<bpc, bargs, inst_list, invalid, lookup_calls, bchart,
                  bridge_calls, result, bret, braised>>

workflow_vars == <<wpc, wargs, project_length, time_sel, wcalls, wret,
                   wraised>>

vars == <<parser_vars, fn_vars, lookup_vars, backing_vars, workflow_vars>>

(* Bounds on the text that is read. *)
MaxLines == 4
MaxTokens == 4

None == <<>>
Some(x) == <<x>>

(***************************************************************************)
(* Characters                                                              *)
(***************************************************************************)
Whitespace == {" ", "\t"}
Digits == {"0", "1", "2", "3", "4", "5", "6", "7", "8", "9"}
UpperSeq == <<"A", "B", "C", "D", "E", "F", "G", "H", "I", "J", "K", "L", "M",
              "N", "O", "P", "Q", "R", "S", "T", "U", "V", "W", "X", "Y", "Z">>
LowerSeq == <<"a", "b", "c", "d", "e", "f", "g", "h", "i", "j", "k", "l", "m",
              "n", "o", "p", "q", "r", "s", "t", "u", "v", "w", "x", "y", "z">>
UpperLetters == {UpperSeq[i] : i \in 1..Len(UpperSeq)}

(* str.lower() on one character *)
LowerChar(c) ==
    IF c \in UpperLetters
    THEN LowerSeq[CHOOSE i \in 1..Len(UpperSeq) : UpperSeq[i] = c]
    ELSE c

Lower(s) == [i \in 1..Len(s) |-> LowerChar(s[i])]

RECURSIVE LStrip(_)
LStrip(s) == IF s # <<>> /\ Head(s) \in Whitespace THEN LStrip(Tail(s)) ELSE s

RECURSIVE RStrip(_)
RStrip(s) ==
    IF s # <<>> /\ s[Len(s)] \in Whitespace
    THEN RStrip(SubSeq(s, 1, Len(s) - 1))
    ELSE s

(* str.strip() *)
Strip(s) == RStrip(LStrip(s))

(* str.split(): the maximal runs of non-whitespace characters, in order *)
RECURSIVE SplitFrom(_, _, _)
SplitFrom(s, cur, acc) ==
    IF s = <<>>
    THEN IF cur = <<>> THEN acc ELSE Append(acc, cur)
    ELSE IF Head(s) \in Whitespace
         THEN SplitFrom(Tail(s), <<>>, IF cur = <<>> THEN acc ELSE Append(acc, cur))
         ELSE SplitFrom(Tail(s), Append(cur, Head(s)), acc)

Split(s) == SplitFrom(s, <<>>, <<>>)

(* str.replace(' ', '-') *)
ReplaceSpaces(s) == [i \in 1..Len(s) |-> IF s[i] = " " THEN "-" ELSE s[i]]

(***************************************************************************)
(* CHORD_RE.  Each ...Ends(t, i) is the set of positions the matcher can   *)
(* stand at after matching that part of the pattern from position i, so    *)
(* the backtracking of the regex engine is the union over the sets.        *)
(***************************************************************************)
NoteLetters == {"A", "B", "C", "D", "E", "F", "G"}
Accidentals == {"b", "#"}
BasicQualities == {<<"m">>, <<"m", "i", "n">>, <<"m", "a", "j">>,
                   <<"d", "i", "m">>, <<"a", "u", "g">>, <<"s", "u", "s">>}

(* [A-G][b#]? *)
NoteEnds(t, i) ==
    IF i <= Len(t) /\ t[i] \in NoteLetters
    THEN {i + 1} \cup (IF i + 1 <= Len(t) /\ t[i + 1] \in Accidentals
                       THEN {i + 2} ELSE {})
    ELSE {}

(* a literal word w *)
LitEnds(t, i, w) ==
    IF i + Len(w) - 1 <= Len(t) /\ SubSeq(t, i, i + Len(w) - 1) = w
    THEN {i + Len(w)} ELSE {}

(* (?:m|min|maj|dim|aug|sus)? *)
QualityEnds(t, i) == {i} \cup UNION {LitEnds(t, i, w) : w \in BasicQualities}

(* \d+ *)
DigitsEnds(t, i) ==
    {j \in (i + 1)..(Len(t) + 1) : \A k \in i..(j - 1) : t[k] \in Digits}

(* [b#]\d+ *)
AltEnds(t, i) ==
    IF i <= Len(t) /\ t[i] \in Accidentals THEN DigitsEnds(t, i + 1) ELSE {}

(* (?:[b#]\d+)* *)
RECURSIVE AltStarEnds(_, _)
AltStarEnds(t, S) ==
    LET N == S \cup UNION {AltEnds(t, i) : i \in S}
    IN  IF N = S THEN S ELSE AltStarEnds(t, N)

(* (?:add\d+)? *)
AddEnds(t, i) ==
    {i} \cup UNION {DigitsEnds(t, j) : j \in LitEnds(t, i, <<"a", "d", "d">>)}

(* (?:/[A-G][b#]?)? *)
SlashEnds(t, i) ==
    {i} \cup (IF i <= Len(t) /\ t[i] = "/" THEN NoteEnds(t, i + 1) ELSE {})

CHORD_RE(t) ==
    LET p1 == NoteEnds(t, 1)
        p2 == UNION {QualityEnds(t, i) : i \in p1}
        p3 == p2 \cup UNION {DigitsEnds(t, i) : i \in p2}
        p4 == AltStarEnds(t, p3)
        p5 == UNION {AddEnds(t, i) : i \in p4}
        p6 == UNION {SlashEnds(t, i) : i \in p5}
    IN  (Len(t) + 1) \in p6

Dot == <<".">>

(* _is_chord_token without the match against CHORD_RE *)
is_chord_token_any(token) ==
    IF token = <<>> \/ token = Dot THEN FALSE ELSE TRUE

_is_chord_token(token) ==
    IF token = <<>> \/ token = Dot THEN FALSE ELSE CHORD_RE(token)

(***************************************************************************)
(* SECTION_RE = ^\[([^\]]+)\] matched at the start of the stripped line:   *)
(* None, or Some(group 1).                                                 *)
(***************************************************************************)
SECTION_RE(line) ==
    IF line # <<>> /\ line[1] = "[" /\ \E k \in 2..Len(line) : line[k] = "]"
    THEN LET k == CHOOSE k \in 2..Len(line) :
                      line[k] = "]" /\ \A j \in 2..(k - 1) : line[j] # "]"
         IN  IF k >= 3 THEN Some(SubSeq(line, 2, k - 1)) ELSE None
    ELSE None

(* the length of the longest suffix of s made of digits *)
RECURSIVE TrailingDigits(_)
TrailingDigits(s) ==
    IF s # <<>> /\ s[Len(s)] \in Digits
    THEN 1 + TrailingDigits(SubSeq(s, 1, Len(s) - 1))
    ELSE 0

(* re.sub(r'\s*\d+$', '', name): the leftmost match is the last run of    *)
(* digits together with the whitespace right before it.                    *)
StripTrailingNumber(name) ==
    LET d == TrailingDigits(name)
    IN  IF d = 0 THEN name ELSE RStrip(SubSeq(name, 1, Len(name) - d))

(* _normalize_section_name without lower() *)
normalize_section_name_nolower(raw) ==
    ReplaceSpaces(StripTrailingNumber(Strip(raw)))

_normalize_section_name(raw) ==
    ReplaceSpaces(StripTrailingNumber(Lower(Strip(raw))))

(***************************************************************************)
(* detect_key                                                              *)
(***************************************************************************)
(* KEY_WEIGHTS.items(), in the order of the dict literal *)
KEY_WEIGHTS ==
    << [key |-> <<"C">>,
        scale_chords |-> {<<"C">>, <<"D", "m">>, <<"E", "m">>, <<"F">>, <<"G">>,
                          <<"A", "m">>}],
       [key |-> <<"G">>,
        scale_chords |-> {<<"G">>, <<"A", "m">>, <<"B", "m">>, <<"C">>, <<"D">>,
                          <<"E", "m">>}],
       [key |-> <<"D">>,
        scale_chords |-> {<<"D">>, <<"E", "m">>, <<"F", "#", "m">>, <<"G">>,
                          <<"A">>, <<"B", "m">>}],
       [key |-> <<"A">>,
        scale_chords |-> {<<"A">>, <<"B", "m">>, <<"C", "#", "m">>, <<"D">>,
                          <<"E">>, <<"F", "#", "m">>}],
       [key |-> <<"E">>,
        scale_chords |-> {<<"E">>, <<"F", "#", "m">>, <<"G", "#", "m">>, <<"A">>,
                          <<"B">>, <<"C", "#", "m">>}],
       [key |-> <<"F">>,
        scale_chords |-> {<<"F">>, <<"G", "m">>, <<"A", "m">>, <<"B", "b">>,
                          <<"C">>, <<"D", "m">>}],
       [key |-> <<"B", "b">>,
        scale_chords |-> {<<"B", "b">>, <<"C", "m">>, <<"D", "m">>,
                          <<"E", "b">>, <<"F">>, <<"G", "m">>}],
       [key |-> <<"A", "m">>,
        scale_chords |-> {<<"A", "m">>, <<"B", "d", "i", "m">>, <<"C">>,
                          <<"D", "m">>, <<"E", "m">>, <<"F">>, <<"G">>, <<"E">>}],
       [key |-> <<"E", "m">>,
        scale_chords |-> {<<"E", "m">>, <<"F", "#", "d", "i", "m">>, <<"G">>,
                          <<"A", "m">>, <<"B", "m">>, <<"C">>, <<"D">>, <<"B">>}],
       [key |-> <<"D", "m">>,
        scale_chords |-> {<<"D", "m">>, <<"E", "d", "i", "m">>, <<"F">>,
                          <<"G", "m">>, <<"A", "m">>, <<"B", "b">>, <<"C">>,
                          <<"A">>}] >>

(* re.match(r'^([A-G][b#]?m?)', c): None, or Some(group 1).  Both optional *)
(* parts are greedy and nothing follows them, so each is taken when it is  *)
(* there.                                                                  *)
KeyRootMatch(c) ==
    IF c # <<>> /\ c[1] \in NoteLetters
    THEN LET a == IF Len(c) >= 2 /\ c[2] \in Accidentals THEN 2 ELSE 1
             m == IF Len(c) >= a + 1 /\ c[a + 1] = "m" THEN a + 1 ELSE a
         IN  Some(SubSeq(c, 1, m))
    ELSE None

(* "for c in chords: m = re.match(...); if m: roots.append(m.group(1))" *)
RECURSIVE KeyRoots(_)
KeyRoots(cs) ==
    IF cs = <<>> THEN <<>> ELSE KeyRootMatch(Head(cs)) \o KeyRoots(Tail(cs))

(* "sum(1 for r in roots if r in scale_chords)" *)
KeyScore(rs, scale_chords) ==
    Cardinality({i \in 1..Len(rs) : rs[i] \in scale_chords})

(* the loop of detect_key taking a key whose score is not lower *)
RECURSIVE KeyLoop_lastwins(_, _, _, _)
KeyLoop_lastwins(rs, k, best_key, best_score) ==
    IF k > Len(KEY_WEIGHTS) THEN best_key
    ELSE LET score == KeyScore(rs, KEY_WEIGHTS[k].scale_chords)
         IN  IF score >= best_score
             THEN KeyLoop_lastwins(rs, k + 1, KEY_WEIGHTS[k].key, score)
             ELSE KeyLoop_lastwins(rs, k + 1, best_key, best_score)

(* "for key, scale_chords in KEY_WEIGHTS.items(): ... if score >           *)
(* best_score: best_score = score; best_key = key", from entry k on        *)
RECURSIVE KeyLoop(_, _, _, _)
KeyLoop(rs, k, best_key, best_score) ==
    IF k > Len(KEY_WEIGHTS) THEN best_key
    ELSE LET score == KeyScore(rs, KEY_WEIGHTS[k].scale_chords)
         IN  IF score > best_score
             THEN KeyLoop(rs, k + 1, KEY_WEIGHTS[k].key, score)
             ELSE KeyLoop(rs, k + 1, best_key, best_score)

(* "if not chords: return 'C'", then best_key = "C", best_score = 0 *)
detect_key(cs) ==
    IF cs = <<>> THEN <<"C">> ELSE KeyLoop(KeyRoots(cs), 1, <<"C">>, 0)

(***************************************************************************)
(* simplify_chord and extract_bass_note                                    *)
(***************************************************************************)
KNOWN_QUALITIES ==
    {<<>>, <<"m">>, <<"m", "i", "n">>, <<"m", "a", "j">>, <<"d", "i", "m">>,
     <<"a", "u", "g">>, <<"s", "u", "s", "2">>, <<"s", "u", "s", "4">>,
     <<"7">>, <<"m", "7">>, <<"m", "a", "j", "7">>, <<"m", "i", "n", "7">>,
     <<"d", "i", "m", "7">>, <<"a", "u", "g", "7">>,
     <<"9">>, <<"m", "9">>, <<"m", "a", "j", "9">>, <<"1", "1">>,
     <<"m", "1", "1">>, <<"1", "3">>, <<"m", "1", "3">>,
     <<"6">>, <<"m", "6">>, <<"a", "d", "d", "9">>, <<"a", "d", "d", "1", "1">>,
     <<"7", "b", "5">>, <<"7", "#", "5">>, <<"m", "7", "b", "5">>,
     <<"7", "b", "9">>, <<"7", "#", "9">>, <<"s", "u", "s">>,
     <<"7", "s", "u", "s", "4">>}

(* '"/" in chord' *)
HasSlash(s) == \E i \in 1..Len(s) : s[i] = "/"

(* str.split(sep) for a separator of one character: the fields between    *)
(* the separators, empty ones included                                     *)
RECURSIVE SplitAt(_, _, _, _)
SplitAt(s, sep, cur, acc) ==
    IF s = <<>> THEN Append(acc, cur)
    ELSE IF Head(s) = sep
         THEN SplitAt(Tail(s), sep, <<>>, Append(acc, cur))
         ELSE SplitAt(Tail(s), sep, Append(cur, Head(s)), acc)

(* chord.split("/") *)
SplitSlash(s) == SplitAt(s, "/", <<>>, <<>>)

(* re.match of the pattern ^([A-G][b#]?) followed by a group taking the    *)
(* rest of the chord: None, or Some of the two groups.  [b#]? is greedy    *)
(* and the second group matches whatever follows, so the accidental goes   *)
(* to the root whenever it is there.  The chords have no line break.       *)
RootMatch(c) ==
    IF c # <<>> /\ c[1] \in NoteLetters
    THEN LET a == IF Len(c) >= 2 /\ c[2] \in Accidentals THEN 2 ELSE 1
         IN  Some([root |-> SubSeq(c, 1, a), quality |-> SubSeq(c, a + 1, Len(c))])
    ELSE None

(* simplify_chord without the allow-list: the root of every chord *)
simplify_chord_rootonly(chord_arg) ==
    LET c == IF HasSlash(chord_arg) THEN SplitSlash(chord_arg)[1] ELSE chord_arg
        root_match == RootMatch(c)
    IN  IF root_match = None THEN c ELSE root_match[1].root

(* simplify_chord returning '' for a chord without a root *)
simplify_chord_nofallback(chord_arg) ==
    LET c == IF HasSlash(chord_arg) THEN SplitSlash(chord_arg)[1] ELSE chord_arg
        root_match == RootMatch(c)
    IN  IF root_match = None THEN <<>>
        ELSE IF root_match[1].quality \in KNOWN_QUALITIES THEN c
             ELSE root_match[1].root

(* simplify_chord without the split at '/' *)
simplify_chord_keepslash(chord_arg) ==
    LET root_match == RootMatch(chord_arg)
    IN  IF root_match = None THEN chord_arg
        ELSE IF root_match[1].quality \in KNOWN_QUALITIES THEN chord_arg
             ELSE root_match[1].root

(* c is chord after 'if "/" in chord: chord = chord.split("/")[0]' *)
simplify_chord(chord_arg) ==
    LET c == IF HasSlash(chord_arg) THEN SplitSlash(chord_arg)[1] ELSE chord_arg
        root_match == RootMatch(c)
    IN  IF root_match = None THEN c
        ELSE IF root_match[1].quality \in KNOWN_QUALITIES THEN c
             ELSE root_match[1].root

(* extract_bass_note returning the last field: chord.split("/")[-1] *)
extract_bass_note_last(chord_arg) ==
    IF HasSlash(chord_arg)
    THEN Some(SplitSlash(chord_arg)[Len(SplitSlash(chord_arg))])
    ELSE None

(* 'if "/" in chord: return chord.split("/")[1]', else None *)
extract_bass_note(chord_arg) ==
    IF HasSlash(chord_arg) THEN Some(SplitSlash(chord_arg)[2]) ELSE None

(***************************************************************************)
(* The texts that are read.  A line is a header line, a blank line or a    *)
(* line of tokens; the guards of the actions, not these sets, decide how   *)
(* the parser treats a line.                                               *)
(***************************************************************************)
Am == <<"A", "m">>
G7B == <<"G", "7", "/", "B">>
Junk == <<"x", "y", "z">>
Tokens == {Am, G7B, Dot, Junk}

VERSE1 == <<"V", "E", "R", "S", "E", " ", "1">>
PreChorus == <<"P", "r", "e", "-", "C", "h", "o", "r", "u", "s">>
HeaderContents == {VERSE1, PreChorus, <<"1", "2">>, <<" ">>,
                   <<"A", " ", "1", " ", "2">>}

Indents == {<<>>, <<" ">>}
HeaderTails == {<<>>, <<" ">> \o Am}
BlankLines == {<<>>, <<" ", "\t">>}

RECURSIVE JoinSp(_)
JoinSp(ts) ==
    IF Len(ts) = 1 THEN ts[1] ELSE ts[1] \o <<" ">> \o JoinSp(Tail(ts))

HeaderLines ==
    {ind \o <<"[">> \o h \o <<"]">> \o tail :
        ind \in Indents, h \in HeaderContents, tail \in HeaderTails}

TokenLines ==
    [k \in 1..MaxTokens |->
        {ind \o JoinSp(ts) : ind \in Indents, ts \in [1..k -> Tokens]}]

(* the lines with at most b tokens outside a header line *)
Lines ==
    [b \in 0..MaxTokens |->
        BlankLines \cup HeaderLines \cup UNION {TokenLines[k] : k \in 1..b}]

(***************************************************************************)
(* parse_chord_chart                                                       *)
(*                                                                         *)
(* History: nlines and ntoks count the lines and the tokens read; nhdr     *)
(* counts the header lines read and hdr_raw is the bracket contents of the *)
(* last one; line_end_chord is the chord that ended the line just read,    *)
(* when that line is a chord line of the open section ending with a chord; *)
(* pre_chords tells whether a chord token was read before the first        *)
(* header.                                                                 *)
(***************************************************************************)
(* parse_chord_chart has not been called *)
ParserIdle ==
    /\ pc = "idle"
    /\ sections = <<>>
    /\ current_section = None
    /\ current_chords = <<>>
    /\ tokens = <<>>
    /\ ti = 0
    /\ prev_chord = None
    /\ nlines = 0
    /\ ntoks = 0
    /\ nhdr = 0
    /\ hdr_raw = <<>>
    /\ line_end_chord = None
    /\ pre_chords = FALSE
    /\ args = None
    /\ chart = None

(* no helper has been called *)
FnIdle ==
    /\ fn = "none"
    /\ chord = <<>>
    /\ chords = <<>>
    /\ roots = <<>>
    /\ ret = None

(* lookup_song has not been called *)
LookupIdle ==
    /\ lpc = "idle"
    /\ largs = None
    /\ search_page = None
    /\ url = None
    /\ chord_page = None
    /\ scraped = None
    /\ lresult = None
    /\ raised = None

(* no backing-track tool has been called *)
BackingIdle ==
    /\ bpc = "idle"
    /\ bargs = None
    /\ inst_list = <<>>
    /\ invalid = <<>>
    /\ lookup_calls = <<>>
    /\ bchart = None
    /\ bridge_calls = <<>>
    /\ result = None
    /\ bret = None
    /\ braised = None

(* no production-workflow tool has been called *)
WorkflowIdle ==
    /\ wpc = "idle"
    /\ wargs = None
    /\ project_length = None
    /\ time_sel = None
    /\ wcalls = <<>>
    /\ wret = None
    /\ wraised = None

(* parse_chord_chart starting with a section already open *)
Init_opensection ==
    /\ pc = "loop"
    /\ sections = <<>>
    /\ current_section = Some(<<"i", "n", "t", "r", "o">>)
    /\ current_chords = <<>>
    /\ tokens = <<>>
    /\ ti = 0
    /\ prev_chord = None
    /\ nlines = 0
    /\ ntoks = 0
    /\ nhdr = 0
    /\ hdr_raw = <<>>
    /\ line_end_chord = None
    /\ pre_chords = FALSE
    /\ args = None
    /\ chart = None
    /\ FnIdle
    /\ LookupIdle
    /\ BackingIdle
    /\ WorkflowIdle

Init ==
    /\ pc = "loop"
    /\ sections = <<>>
    /\ current_section = None
    /\ current_chords = <<>>
    /\ tokens = <<>>
    /\ ti = 0
    /\ prev_chord = None
    /\ nlines = 0
    /\ ntoks = 0
    /\ nhdr = 0
    /\ hdr_raw = <<>>
    /\ line_end_chord = None
    /\ pre_chords = FALSE
    /\ args = None
    /\ chart = None
    /\ FnIdle
    /\ LookupIdle
    /\ BackingIdle
    /\ WorkflowIdle

(* SavePrevious testing current_section only *)
SavePrevious_nochords(secs) ==
    IF current_section # None /\ current_section[1] # <<>>
    THEN Append(secs, [name |-> current_section[1],
                       chords |-> current_chords,
                       bars |-> Len(current_chords)])
    ELSE secs

(* SavePrevious counting each different chord once *)
SavePrevious_distinctbars(secs) ==
    IF current_section # None /\ current_section[1] # <<>> /\ current_chords # <<>>
    THEN Append(secs, [name |-> current_section[1],
                       chords |-> current_chords,
                       bars |-> Cardinality({current_chords[i] :
                                                i \in 1..Len(current_chords)})])
    ELSE secs

(* SavePrevious putting the section first: sections.insert(0, {...}) *)
SavePrevious_prepend(secs) ==
    IF current_section # None /\ current_section[1] # <<>> /\ current_chords # <<>>
    THEN <<[name |-> current_section[1],
            chords |-> current_chords,
            bars |-> Len(current_chords)]>> \o secs
    ELSE secs

(* "if current_section and current_chords: sections.append({...})" *)
SavePrevious(secs) ==
    IF current_section # None /\ current_section[1] # <<>> /\ current_chords # <<>>
    THEN Append(secs, [name |-> current_section[1],
                       chords |-> current_chords,
                       bars |-> Len(current_chords)])
    ELSE secs

(* "if not line: continue" *)
BlankLine ==
    /\ pc = "loop"
    /\ nlines < MaxLines
    /\ \E raw_line \in Lines[MaxTokens - ntoks] :
          /\ Strip(raw_line) = <<>>
          /\ nlines' = nlines + 1
          /\ line_end_chord' = None
    /\ UNCHANGED <<pc, sections, current_section, current_chords, tokens, ti,
                   prev_chord, ntoks, nhdr, hdr_raw, pre_chords, args, chart>>
    /\ UNCHANGED <<fn_vars, lookup_vars, backing_vars, workflow_vars>>

(* the section header branch *)
HeaderLine ==
    /\ pc = "loop"
    /\ nlines < MaxLines
    /\ \E raw_line \in Lines[MaxTokens - ntoks] :
          LET line == Strip(raw_line)
              section_match == SECTION_RE(line)
          IN  /\ line # <<>>
              /\ section_match # None
              /\ sections' = SavePrevious(sections)
              /\ current_section' = Some(_normalize_section_name(section_match[1]))
              /\ current_chords' = <<>>
              /\ nlines' = nlines + 1
              /\ nhdr' = nhdr + 1
              /\ hdr_raw' = section_match[1]
              /\ line_end_chord' = None
    /\ UNCHANGED <<pc, tokens, ti, prev_chord, ntoks, pre_chords, args, chart>>
    /\ UNCHANGED <<fn_vars, lookup_vars, backing_vars, workflow_vars>>

(* a line that is no header while current_section is None: nothing is done *)
SkipLine ==
    /\ pc = "loop"
    /\ nlines < MaxLines
    /\ \E raw_line \in Lines[MaxTokens - ntoks] :
          LET line == Strip(raw_line)
          IN  /\ line # <<>>
              /\ SECTION_RE(line) = None
              /\ ~(current_section # None)
              /\ nlines' = nlines + 1
              /\ ntoks' = ntoks + Len(Split(line))
              /\ pre_chords' = (pre_chords \/
                                \E i \in 1..Len(Split(line)) :
                                    CHORD_RE(Split(line)[i]))
              /\ line_end_chord' = None
    /\ UNCHANGED <<pc, sections, current_section, current_chords, tokens, ti,
                   prev_chord, nhdr, hdr_raw, args, chart>>
    /\ UNCHANGED <<fn_vars, lookup_vars, backing_vars, workflow_vars>>

(* "tokens = line.split(); prev_chord = None" *)
ChordLine ==
    /\ pc = "loop"
    /\ nlines < MaxLines
    /\ \E raw_line \in Lines[MaxTokens - ntoks] :
          LET line == Strip(raw_line)
          IN  /\ line # <<>>
              /\ SECTION_RE(line) = None
              /\ current_section # None
              /\ tokens' = Split(line)
              /\ prev_chord' = None
              /\ ti' = 1
              /\ pc' = "tokens"
              /\ nlines' = nlines + 1
              /\ ntoks' = ntoks + Len(Split(line))
    /\ UNCHANGED <<sections, current_section, current_chords, nhdr, hdr_raw,
                   line_end_chord, pre_chords, args, chart>>
    /\ UNCHANGED <<fn_vars, lookup_vars, backing_vars, workflow_vars>>

(* "for token in tokens" moves on.  After the last token the line is done; *)
(* tokens and its index are not read again before the next chord line      *)
(* assigns them, so they are cleared.                                      *)
NextToken ==
    /\ IF ti = Len(tokens)
       THEN /\ pc' = "loop"
            /\ tokens' = <<>>
            /\ ti' = 0
            /\ line_end_chord' = IF tokens[ti] # Dot /\ CHORD_RE(tokens[ti])
                                 THEN Some(tokens[ti]) ELSE None
       ELSE /\ pc' = "tokens"
            /\ tokens' = tokens
            /\ ti' = ti + 1
            /\ line_end_chord' = None
    /\ UNCHANGED <<sections, current_section, nlines, ntoks, nhdr, hdr_raw,
                   pre_chords, args, chart>>
    /\ UNCHANGED <<fn_vars, lookup_vars, backing_vars, workflow_vars>>

(* "if token == '.': if prev_chord: current_chords.append(prev_chord)" *)
TokRepeat ==
    /\ pc = "tokens"
    /\ tokens[ti] = Dot
    /\ current_chords' = IF prev_chord # None
                         THEN Append(current_chords, prev_chord[1])
                         ELSE current_chords
    /\ UNCHANGED prev_chord
    /\ NextToken

(* TokChord setting prev_chord only when it is still None *)
TokChord_keepfirst ==
    /\ pc = "tokens"
    /\ tokens[ti] # Dot
    /\ _is_chord_token(tokens[ti])
    /\ current_chords' = Append(current_chords, tokens[ti])
    /\ prev_chord' = IF prev_chord = None THEN Some(tokens[ti]) ELSE prev_chord
    /\ NextToken

(* "elif _is_chord_token(token): append(token); prev_chord = token" *)
TokChord ==
    /\ pc = "tokens"
    /\ tokens[ti] # Dot
    /\ _is_chord_token(tokens[ti])
    /\ current_chords' = Append(current_chords, tokens[ti])
    /\ prev_chord' = Some(tokens[ti])
    /\ NextToken

(* TokIgnore forgetting the previous chord *)
TokIgnore_reset ==
    /\ pc = "tokens"
    /\ tokens[ti] # Dot
    /\ ~_is_chord_token(tokens[ti])
    /\ current_chords' = current_chords
    /\ prev_chord' = None
    /\ NextToken

(* TokIgnore raising on a token that is no chord *)
TokIgnore_raises ==
    /\ pc = "tokens"
    /\ tokens[ti] # Dot
    /\ ~_is_chord_token(tokens[ti])
    /\ pc' = "raised"
    /\ UNCHANGED <<sections, current_section, current_chords, tokens, ti,
                   prev_chord, nlines, ntoks, nhdr, hdr_raw, line_end_chord,
                   pre_chords, args, chart>>
    /\ UNCHANGED <<fn_vars, lookup_vars, backing_vars, workflow_vars>>

(* any other token: neither branch is taken *)
TokIgnore ==
    /\ pc = "tokens"
    /\ tokens[ti] # Dot
    /\ ~_is_chord_token(tokens[ti])
    /\ UNCHANGED <<current_chords, prev_chord>>
    /\ NextToken

(* the arguments key and bpm of parse_chord_chart *)
KeyArgs == {<<>>, <<"E", "m">>}
BpmArgs == {-1, 0, 90}

DefaultBpm == 120

(* "all_chords = [c for s in sections for c in s['chords']]" *)
RECURSIVE AllChords(_)
AllChords(secs) ==
    IF secs = <<>> THEN <<>> ELSE Head(secs).chords \o AllChords(Tail(secs))

(* the key of the chart, always detected *)
ChartKey_detected(key, all_chords) == detect_key(all_chords)

(* "if not key: key = detect_key(all_chords)" *)
ChartKey(key, all_chords) ==
    IF key = <<>> THEN detect_key(all_chords) ELSE key

(* "bpm or 120" *)
ChartBpm(bpm) == IF bpm = 0 THEN DefaultBpm ELSE bpm

(* the end of the text: "Save last section", then the chart is built and   *)
(* returned.  split("\n") yields at least one line, so the loop has read   *)
(* a line before it ends.  title and artist keep their default ''.         *)
Finish ==
    /\ pc = "loop"
    /\ nlines >= 1
    /\ \E key \in KeyArgs, bpm \in BpmArgs :
          LET secs == SavePrevious(sections)
          IN  /\ sections' = secs
              /\ args' = Some([key |-> key, bpm |-> bpm])
              /\ chart' = Some([title |-> <<>>,
                                artist |-> <<>>,
                                key |-> ChartKey(key, AllChords(secs)),
                                bpm |-> ChartBpm(bpm),
                                time_sig |-> <<"4", "/", "4">>,
                                sections |-> secs])
    /\ pc' = "done"
    /\ UNCHANGED <<current_section, current_chords, tokens, ti, prev_chord,
                   nlines, ntoks, nhdr, hdr_raw, line_end_chord, pre_chords>>
    /\ UNCHANGED <<fn_vars, lookup_vars, backing_vars, workflow_vars>>

Next ==
    \/ BlankLine
    \/ HeaderLine
    \/ SkipLine
    \/ ChordLine
    \/ TokRepeat
    \/ TokChord
    \/ TokIgnore
    \/ Finish

Spec == Init /\ [][Next]_vars

(***************************************************************************)
(* The pure helpers.  One call is made on an input chosen at the start:    *)
(* a chord for simplify_chord and extract_bass_note, a list of chords for  *)
(* detect_key.  fn names the function called, ret is Some(value returned), *)
(* or the optional value itself for extract_bass_note; roots is the local  *)
(* list of detect_key.                                                     *)
(***************************************************************************)
MaxKeyChords == 4

InputRoots == {<<"C">>, <<"B", "b">>, <<"F", "#">>, <<"G">>, <<"A">>}
InputNonRoots == {<<>>, <<"x">>, <<"H">>}
UnknownQualities ==
    {<<"5">>, <<"b", "5">>, <<"x", "y", "z">>, <<"M", "7">>,
     <<"m", "a", "j", "9", "#", "1", "1">>,
     <<"a", "d", "d", "9", "#", "1", "1", "b", "1", "3">>}
InputTails == {<<>>, <<"/", "E">>, <<"/", "E", "/", "G">>, <<"/">>,
               <<"/", "F", "#">>}

ChordInputs ==
    {r \o q \o t : r \in InputRoots \cup InputNonRoots,
                   q \in KNOWN_QUALITIES \cup UnknownQualities,
                   t \in InputTails}

KeyChords ==
    {<<"C">>, <<"G">>, <<"A", "m">>, <<"F">>, <<"E">>,
     <<"C", "m", "a", "j", "7">>, <<"C", "7">>, <<"C", "s", "u", "s", "4">>,
     <<"C", "/", "E">>, <<"A", "m", "7">>, <<"A", "m", "/", "G">>,
     <<"x", "y", "z">>}

KeyInputs == UNION {[1..n -> KeyChords] : n \in 0..MaxKeyChords}

InitFn ==
    /\ ParserIdle
    /\ LookupIdle
    /\ BackingIdle
    /\ WorkflowIdle
    /\ fn = "none"
    /\ roots = <<>>
    /\ ret = None
    /\ \/ chord \in ChordInputs /\ chords = <<>>
       \/ chord = <<>> /\ chords \in KeyInputs

SimplifyChord ==
    /\ fn = "none"
    /\ fn' = "simplify_chord"
    /\ ret' = Some(simplify_chord(chord))
    /\ UNCHANGED <<chord, chords, roots>>
    /\ UNCHANGED <<parser_vars, lookup_vars, backing_vars, workflow_vars>>

ExtractBassNote ==
    /\ fn = "none"
    /\ fn' = "extract_bass_note"
    /\ ret' = extract_bass_note(chord)
    /\ UNCHANGED <<chord, chords, roots>>
    /\ UNCHANGED <<parser_vars, lookup_vars, backing_vars, workflow_vars>>

DetectKey ==
    /\ fn = "none"
    /\ fn' = "detect_key"
    /\ roots' = KeyRoots(chords)
    /\ ret' = Some(detect_key(chords))
    /\ UNCHANGED <<chord, chords>>
    /\ UNCHANGED <<parser_vars, lookup_vars, backing_vars, workflow_vars>>

NextFn ==
    \/ SimplifyChord
    \/ ExtractBassNote
    \/ DetectKey

SpecFn == InitFn /\ [][NextFn]_vars

(***************************************************************************)
(* parse_chord_chart as a function of the whole text, for its caller       *)
(* lookup_song: the loop over the lines and the loop over the tokens of a  *)
(* line are the recursions over what is left to read.                      *)
(***************************************************************************)
(* raw_text.split("\n") *)
SplitLines(s) == SplitAt(s, "\n", <<>>, <<>>)

(* "if current_section and current_chords: sections.append({...})" *)
SaveSection(secs, section, section_chords) ==
    IF section # None /\ section[1] # <<>> /\ section_chords # <<>>
    THEN Append(secs, [name |-> section[1],
                       chords |-> section_chords,
                       bars |-> Len(section_chords)])
    ELSE secs

(* "for token in tokens", from the tokens ts on *)
RECURSIVE ParseTokens(_, _, _)
ParseTokens(ts, section_chords, prev) ==
    IF ts = <<>> THEN section_chords
    ELSE IF Head(ts) = Dot
         THEN ParseTokens(Tail(ts),
                          IF prev # None THEN Append(section_chords, prev[1])
                                         ELSE section_chords,
                          prev)
         ELSE IF _is_chord_token(Head(ts))
              THEN ParseTokens(Tail(ts), Append(section_chords, Head(ts)),
                               Some(Head(ts)))
              ELSE ParseTokens(Tail(ts), section_chords, prev)

(* parse_chord_chart reading the rest of a header line as a chord line *)
RECURSIVE ParseLines_headertail(_, _, _, _)
ParseLines_headertail(ls, secs, section, section_chords) ==
    IF ls = <<>> THEN SaveSection(secs, section, section_chords)
    ELSE LET line == Strip(Head(ls))
             section_match == SECTION_RE(line)
         IN  IF line = <<>>
             THEN ParseLines_headertail(Tail(ls), secs, section,
                                        section_chords)
             ELSE IF section_match # None
                  THEN ParseLines_headertail(
                           Tail(ls),
                           SaveSection(secs, section, section_chords),
                           Some(_normalize_section_name(section_match[1])),
                           ParseTokens(
                               Split(SubSeq(line, Len(section_match[1]) + 3,
                                            Len(line))),
                               <<>>, None))
                  ELSE IF section # None
                       THEN ParseLines_headertail(
                                Tail(ls), secs, section,
                                ParseTokens(Split(line), section_chords,
                                            None))
                       ELSE ParseLines_headertail(Tail(ls), secs, section,
                                                  section_chords)

(* "for line in lines", from the lines ls on, and "Save last section" *)
RECURSIVE ParseLines(_, _, _, _)
ParseLines(ls, secs, section, section_chords) ==
    IF ls = <<>> THEN SaveSection(secs, section, section_chords)
    ELSE LET line == Strip(Head(ls))
             section_match == SECTION_RE(line)
         IN  IF line = <<>>
             THEN ParseLines(Tail(ls), secs, section, section_chords)
             ELSE IF section_match # None
                  THEN ParseLines(Tail(ls),
                                  SaveSection(secs, section, section_chords),
                                  Some(_normalize_section_name(section_match[1])),
                                  <<>>)
                  ELSE IF section # None
                       THEN ParseLines(Tail(ls), secs, section,
                                       ParseTokens(Split(line), section_chords,
                                                   None))
                       ELSE ParseLines(Tail(ls), secs, section, section_chords)

parse_chord_chart(raw_text, title, artist, bpm, key) ==
    LET secs == ParseLines(SplitLines(raw_text), <<>>, None, <<>>)
    IN  [title |-> title,
         artist |-> artist,
         key |-> ChartKey(key, AllChords(secs)),
         bpm |-> ChartBpm(bpm),
         time_sig |-> <<"4", "/", "4">>,
         sections |-> secs]

(***************************************************************************)
(* estimate_tempo                                                          *)
(***************************************************************************)
GENRE_TEMPOS ==
    (<<"r", "o", "c", "k">> :> 120) @@ (<<"p", "o", "p">> :> 115) @@
    (<<"b", "l", "u", "e", "s">> :> 90) @@ (<<"j", "a", "z", "z">> :> 140) @@
    (<<"f", "u", "n", "k">> :> 100) @@
    (<<"c", "o", "u", "n", "t", "r", "y">> :> 110) @@
    (<<"b", "a", "l", "l", "a", "d">> :> 72) @@
    (<<"r", "e", "g", "g", "a", "e">> :> 80) @@
    (<<"l", "a", "t", "i", "n">> :> 105) @@ (<<"m", "e", "t", "a", "l">> :> 140) @@
    (<<"p", "u", "n", "k">> :> 170) @@ (<<"r", "&", "b">> :> 95)

DefaultTempo == 120

(* "GENRE_TEMPOS.get(genre.lower(), 120)" *)
estimate_tempo(genre) ==
    IF Lower(genre) \in DOMAIN GENRE_TEMPOS
    THEN GENRE_TEMPOS[Lower(genre)]
    ELSE DefaultTempo

(***************************************************************************)
(* lookup_song: search_ultimate_guitar, scrape_ug_chord_page, then         *)
(* parse_chord_chart.  What the two requests bring back is chosen when     *)
(* the request is made.                                                    *)
(*                                                                         *)
(* A reply is described by how far the code gets with it:                  *)
(*   "no_requests"  the requests module is missing                         *)
(*   "exception"    requests.get raises (timeout, connection error)        *)
(*   "status"       the status code is not 200                             *)
(*   "no_store"     the page has no js-store data                          *)
(*   "bad_json"     json.loads fails                                       *)
(*   "falsy"        the decoded value is falsy ({}, [], null, 0, '')       *)
(*   "not_dict"     a value on the path to the field cannot be subscripted *)
(*                  with a key (TypeError)                                 *)
(*   "missing"      a key of the path is missing (KeyError)                *)
(*   "found"        the path leads to the field, whose value follows       *)
(* A JSON value is a record of its kind and its contents.                  *)
(***************************************************************************)
MaxResults == 2

Song == <<"S">>
Artist == <<"A">>

BpmInputs == {0, 100}
GenreInputs == {<<>>, <<"R", "o", "c", "k">>, <<"b", "l", "u", "e", "s">>,
                <<"p", "o", "l", "k", "a">>}

FailedReplies == {"exception", "status", "no_store", "bad_json", "falsy",
                  "not_dict", "missing"}

(* the entries of the results list: a dict with its type, rating and url, *)
(* or a value that is no dict                                              *)
Ratings == {[k |-> "absent", n |-> 0], [k |-> "number", n |-> 1],
            [k |-> "number", n |-> 2], [k |-> "null", n |-> 0]}
Urls == {None, Some(<<"u", "1">>), Some(<<"u", "2">>)}
NoDict == [kind |-> "other", type |-> "", rating |-> [k |-> "absent", n |-> 0],
           url |-> None]
Entries ==
    [kind : {"dict"}, type : {"Chords", "Tabs"}, rating : Ratings, url : Urls]
        \cup {NoDict}

(* the value of the results field: iterating a list gives its items, a     *)
(* string its characters and a dict its keys, which are no dicts           *)
ResultsValues ==
    {[kind |-> k, items |-> <<>>] : k \in {"null", "number"}}
        \cup {[kind |-> k, items |-> i] : k \in {"string", "dict"},
                                           i \in {<<>>, <<NoDict>>}}
        \cup {[kind |-> "list", items |-> i] :
                 i \in UNION {[1..n -> Entries] : n \in 0..MaxResults}}

SearchReplies ==
    {[outcome |-> o, results |-> [kind |-> "null", items |-> <<>>]] :
        o \in FailedReplies \cup {"no_requests"}}
        \cup {[outcome |-> "found", results |-> r] : r \in ResultsValues}

(* the chord page: content and meta of tab_view *)
ContentTexts ==
    {<<>>,
     <<"A", "m", " ", "G">>,
     <<"[", "V", "e", "r", "s", "e", "]", "\\", "n",
       "A", "m", " ", "<", "b", ">", "E", "<", "/", "b", ">">>}
ContentValues ==
    {[kind |-> "str", text |-> t] : t \in ContentTexts}
        \cup {[kind |-> k, text |-> <<>>] : k \in {"null", "number"}}
MetaValues ==
    [kind : {"dict"}, bpm : {None, Some(0), Some(95)},
     tonality : {None, Some(<<"E", "m">>)}]
        \cup {[kind |-> k, bpm |-> None, tonality |-> None] :
                 k \in {"absent", "null", "list"}}

ChordReplies ==
    {[outcome |-> o, content |-> [kind |-> "null", text |-> <<>>],
      meta |-> [kind |-> "absent", bpm |-> None, tonality |-> None]] :
        o \in FailedReplies}
        \cup {[outcome |-> "found", content |-> c, meta |-> m] :
                 c \in ContentValues, m \in MetaValues}

InitLookup ==
    /\ ParserIdle
    /\ FnIdle
    /\ BackingIdle
    /\ WorkflowIdle
    /\ lpc = "search"
    /\ largs \in {Some([bpm |-> b, genre |-> g]) :
                    b \in BpmInputs, g \in GenreInputs}
    /\ search_page = None
    /\ url = None
    /\ chord_page = None
    /\ scraped = None
    /\ lresult = None
    /\ raised = None

(* "[r for r in results if r.get('type') == 'Chords']", for dict items *)
ChordTabs(items) == SelectSeq(items, LAMBDA r : r.type = "Chords")

(* "r.get('rating', 0)" of a rating that is a number or absent *)
RatingKey(r) == IF r.rating.k = "number" THEN r.rating.n ELSE 0

(* the sort putting r before the items of the same rating *)
RECURSIVE InsertByRating_latest(_, _)
InsertByRating_latest(sorted, r) ==
    IF sorted = <<>> THEN <<r>>
    ELSE IF RatingKey(Head(sorted)) > RatingKey(r)
         THEN <<Head(sorted)>> \o InsertByRating_latest(Tail(sorted), r)
         ELSE <<r>> \o sorted

(* list.sort(key=..., reverse=True) is stable: r goes behind the items     *)
(* whose key is not lower                                                  *)
RECURSIVE InsertByRating(_, _)
InsertByRating(sorted, r) ==
    IF sorted = <<>> THEN <<r>>
    ELSE IF RatingKey(Head(sorted)) >= RatingKey(r)
         THEN <<Head(sorted)>> \o InsertByRating(Tail(sorted), r)
         ELSE <<r>> \o sorted

RECURSIVE SortByRating(_, _)
SortByRating(tabs, n) ==
    IF n = 0 THEN <<>> ELSE InsertByRating(SortByRating(tabs, n - 1), tabs[n])

(* search_ultimate_guitar on a reply: what it returns, or the exception    *)
(* that leaves it.  Comparing None with a rating raises, and a list of     *)
(* two or more is compared.                                                *)
search_ultimate_guitar(reply) ==
    IF reply.outcome # "found"
    THEN [ret |-> None, exc |-> None]
    ELSE LET results == reply.results
         IN  IF results.kind \in {"null", "number"}
             THEN [ret |-> None, exc |-> Some("TypeError")]
             ELSE IF \E i \in 1..Len(results.items) :
                        results.items[i].kind # "dict"
                  THEN [ret |-> None, exc |-> Some("AttributeError")]
                  ELSE LET chord_tabs == ChordTabs(results.items)
                       IN  IF chord_tabs = <<>>
                           THEN [ret |-> None, exc |-> None]
                           ELSE IF /\ Len(chord_tabs) >= 2
                                   /\ \E i \in 1..Len(chord_tabs) :
                                         chord_tabs[i].rating.k = "null"
                                THEN [ret |-> None, exc |-> Some("TypeError")]
                                ELSE [ret |-> SortByRating(chord_tabs,
                                                 Len(chord_tabs))[1].url,
                                      exc |-> None]

(* the position of the first '>' of s after position i, or 0 *)
TagEnd(s, i) ==
    IF \E j \in (i + 1)..Len(s) : s[j] = ">"
    THEN CHOOSE j \in (i + 1)..Len(s) :
             s[j] = ">" /\ \A k \in (i + 1)..(j - 1) : s[k] # ">"
    ELSE 0

(* re.sub(r'<[^>]+>', '', content), from position i on: a '<' with at      *)
(* least one character before the next '>' is removed up to that '>'       *)
RECURSIVE StripTags(_, _)
StripTags(s, i) ==
    IF i > Len(s) THEN <<>>
    ELSE IF s[i] = "<" /\ TagEnd(s, i) > i + 1
         THEN StripTags(s, TagEnd(s, i) + 1)
         ELSE <<s[i]>> \o StripTags(s, i + 1)

(* content.replace("\\n", "\n"): a backslash followed by n becomes a line  *)
(* break                                                                   *)
RECURSIVE DecodeNewlines(_)
DecodeNewlines(s) ==
    IF s = <<>> THEN <<>>
    ELSE IF Len(s) >= 2 /\ s[1] = "\\" /\ s[2] = "n"
         THEN <<"\n">> \o DecodeNewlines(SubSeq(s, 3, Len(s)))
         ELSE <<s[1]>> \o DecodeNewlines(Tail(s))

(* scrape_ug_chord_page on a reply: the pair it returns, None, or the      *)
(* exception that leaves it.  tab_view.get("meta", {}) gives {} for an     *)
(* absent meta.                                                            *)
scrape_ug_chord_page(reply) ==
    IF reply.outcome # "found"
    THEN [ret |-> None, exc |-> None]
    ELSE IF reply.content.kind # "str"
         THEN [ret |-> None, exc |-> Some("TypeError")]
         ELSE [ret |-> Some([chord_text |->
                                DecodeNewlines(StripTags(reply.content.text, 1)),
                             meta |-> IF reply.meta.kind = "absent"
                                      THEN [kind |-> "dict", bpm |-> None,
                                            tonality |-> None]
                                      ELSE reply.meta]),
               exc |-> None]

(* "url = search_ultimate_guitar(song, artist); if not url: return None"   *)
LookupSearch ==
    /\ lpc = "search"
    /\ \E reply \in SearchReplies :
          LET r == search_ultimate_guitar(reply)
          IN  /\ search_page' = Some(reply)
              /\ url' = r.ret
              /\ raised' = r.exc
              /\ lpc' = IF r.exc # None THEN "raised"
                        ELSE IF r.ret = None THEN "returned" ELSE "scrape"
    /\ UNCHANGED <<largs, chord_page, scraped, lresult>>
    /\ UNCHANGED <<parser_vars, fn_vars, backing_vars, workflow_vars>>

(* "result = scrape_ug_chord_page(url); if not result: return None".  The  *)
(* reply to the search is gone with the call that read it.                 *)
LookupScrape ==
    /\ lpc = "scrape"
    /\ \E reply \in ChordReplies :
          LET r == scrape_ug_chord_page(reply)
          IN  /\ chord_page' = Some(reply)
              /\ scraped' = r.ret
              /\ raised' = r.exc
              /\ lpc' = IF r.exc # None THEN "raised"
                        ELSE IF r.ret = None THEN "returned" ELSE "chart"
    /\ search_page' = None
    /\ UNCHANGED <<largs, url, lresult>>
    /\ UNCHANGED <<parser_vars, fn_vars, backing_vars, workflow_vars>>

(* the bpm of lookup_song with the genre estimate taken before the        *)
(* scraped bpm                                                             *)
LookupBpm_genrefirst(bpm, genre, meta) ==
    IF bpm # 0 THEN bpm
    ELSE IF genre # <<>> THEN estimate_tempo(genre)
         ELSE IF meta.bpm = None THEN 0 ELSE meta.bpm[1]

(* the bpm of lookup_song: "if not bpm: bpm = meta.get('bpm', 0)", then    *)
(* "if not bpm and genre: bpm = estimate_tempo(genre)"                     *)
LookupBpm(bpm, genre, meta) ==
    LET from_meta == IF bpm # 0 THEN bpm
                     ELSE IF meta.bpm = None THEN 0 ELSE meta.bpm[1]
    IN  IF from_meta = 0 /\ genre # <<>> THEN estimate_tempo(genre)
        ELSE from_meta

(* the rest of lookup_song.  meta.get raises when meta is no dict. *)
LookupChart ==
    /\ lpc = "chart"
    /\ LET meta == scraped[1].meta
       IN  IF meta.kind # "dict"
           THEN /\ raised' = Some("AttributeError")
                /\ lpc' = "raised"
                /\ UNCHANGED lresult
           ELSE /\ lresult' =
                      Some(parse_chord_chart(
                               scraped[1].chord_text, Song, Artist,
                               LookupBpm(largs[1].bpm, largs[1].genre, meta),
                               IF meta.tonality = None THEN <<>>
                               ELSE meta.tonality[1]))
                /\ lpc' = "returned"
                /\ UNCHANGED raised
    /\ UNCHANGED <<largs, search_page, url, chord_page, scraped>>
    /\ UNCHANGED <<parser_vars, fn_vars, backing_vars, workflow_vars>>

NextLookup ==
    \/ LookupSearch
    \/ LookupScrape
    \/ LookupChart

SpecLookup == InitLookup /\ [][NextLookup]_vars

(***************************************************************************)
(* server/tools/backing_tracks.py: generate_backing_track and manual_chart *)
(*                                                                         *)
(* Each tool runs without interruption up to its "await                    *)
(* bridge.call_lua(...)", and again from the reply to its end, so each is  *)
(* two actions.  lookup_song and the bridge are the environment:           *)
(* lookup_song returns None, raises, or returns the chart of a scraped     *)
(* page; the bridge replies with a dict.  lookup_calls and bridge_calls    *)
(* record the calls that were made.  A message is a record of its opening  *)
(* words and of the values it is formatted from; a raised exception is a   *)
(* record of its type and of the error text it carries.                    *)
(***************************************************************************)
VALID_INSTRUMENTS == <<<<"d", "r", "u", "m", "s">>, <<"b", "a", "s", "s">>, <<"k", "e", "y", "s">>, <<"g", "u", "i", "t", "a", "r">>>>

StyleGenre == <<"g", "e", "n", "r", "e">>
Untitled == <<"U", "n", "t", "i", "t", "l", "e", "d">>
Unknown == <<"U", "n", "k", "n", "o", "w", "n">>
ManualBpm == 120

(* "[i.strip().lower() for i in instruments.split(',')]" *)
InstList(instruments) ==
    LET parts == SplitAt(instruments, ",", <<>>, <<>>)
    IN  [i \in 1..Len(parts) |-> Lower(Strip(parts[i]))]

(* the invalid instruments cut down to the first one *)
InvalidOf_first(list) ==
    LET bad == SelectSeq(list, LAMBDA i :
                   \A k \in 1..Len(VALID_INSTRUMENTS) :
                       VALID_INSTRUMENTS[k] # i)
    IN  IF bad = <<>> THEN <<>> ELSE <<bad[1]>>

(* "[i for i in inst_list if i not in VALID_INSTRUMENTS]" *)
InvalidOf(list) ==
    SelectSeq(list, LAMBDA i :
        \A k \in 1..Len(VALID_INSTRUMENTS) : VALID_INSTRUMENTS[k] # i)

(* 'genre_override or style if style != "genre" else ""': the conditional  *)
(* expression binds weaker than "or", so the whole "genre_override or      *)
(* style" is its first branch                                              *)
LookupGenre(style, genre_override) ==
    IF style # StyleGenre
    THEN IF genre_override # <<>> THEN genre_override ELSE style
    ELSE <<>>

(* a message: its opening words, the names it lists, the key and the bpm   *)
Message(kind, names, key, bpm) ==
    [kind |-> kind, names |-> names, key |-> key, bpm |-> bpm]

(* the chart as the bridge gets it: the dict of parse_chord_chart and the  *)
(* "genre" entry, None when the dict has no such entry                     *)
ChartDict(c, bpm, genre) ==
    [title |-> c.title, artist |-> c.artist, key |-> c.key, bpm |-> bpm,
     time_sig |-> c.time_sig, sections |-> c.sections, genre |-> genre]

(* "if bpm_override: chart['bpm'] = bpm_override" and                      *)
(* "if genre_override: chart['genre'] = genre_override"                    *)
Override(c, bpm_override, genre_override) ==
    ChartDict(c,
              IF bpm_override # 0 THEN bpm_override ELSE c.bpm,
              IF genre_override # <<>> THEN Some(genre_override) ELSE None)

(* what lookup_song does for generate_backing_track *)
FoundText == <<"[", "V", "]", "\n", "A", "m">>
LookupOutcomes ==
    {[kind |-> k, meta |-> [kind |-> "dict", bpm |-> None, tonality |-> None]] :
        k \in {"none", "raises", "found"}}
    \cup {[kind |-> "found",
           meta |-> [kind |-> "dict", bpm |-> Some(95), tonality |-> None]]}

(* the chart lookup_song builds from a scraped page *)
LookedUp(bpm, genre, meta) ==
    parse_chord_chart(FoundText, Song, Artist, LookupBpm(bpm, genre, meta),
                      <<>>)

(* the replies of the bridge: "ok" true, false or missing; "ret" missing,  *)
(* null, or a dict with or without "tracks"; "error" missing or a text     *)
Tracks == <<<<"D", "r", "u", "m", "s">>>>
BridgeReplies ==
    [ok : {"true", "false", "absent"},
     ret : {[kind |-> "absent", tracks |-> None],
            [kind |-> "null", tracks |-> None],
            [kind |-> "dict", tracks |-> None],
            [kind |-> "dict", tracks |-> Some(Tracks)]},
     error : {None, Some("Lua error")}]

(* 'result.get("ok")' taken as the condition of "if" with every reply      *)
(* reported as success                                                     *)
Succeeded_always(reply) == TRUE

(* 'result.get("ok")' taken as the condition of "if" *)
Succeeded(reply) == reply.ok = "true"

(* "ret.get('tracks', inst_list)" with "ret = result.get('ret', {})" *)
TracksCreated(reply, list) ==
    IF reply.ret.tracks = None THEN list ELSE reply.ret.tracks[1]

(* "result.get('error', 'Unknown error')" *)
ErrorText(reply) ==
    IF reply.error = None THEN "Unknown error" ELSE reply.error[1]

(* 'not chart["sections"]' with no chart reported as empty *)
NoSections_never(c) == FALSE

(* 'not chart["sections"]' *)
NoSections(c) == c.sections = <<>>

(* the arguments of the calls *)
InstrumentInputs == {<<"d", "r", "u", "m", "s", ",", "b", "a", "s", "s">>, <<"K", "e", "y", "s", " ", ",", " ", "g", "u", "i", "t", "a", "r">>, <<"t", "u", "b", "a", ",", "d", "r", "u", "m", "s", ",">>, <<>>}
StyleInputs == {StyleGenre, <<"r", "o", "c", "k">>}
GenreOverrideInputs == {<<>>, <<"b", "l", "u", "e", "s">>}
BpmOverrideInputs == {0, 100}

(* every root of the chord grammar *)
AllRoots ==
    {<<l>> \o a : l \in NoteLetters, a \in {<<>>, <<"b">>, <<"#">>}}

(* a one-section text with the single token t *)
OneToken(t) == <<"[", "V", "]", "\n">> \o t

ChordTexts ==
    {OneToken(r \o q) : r \in AllRoots, q \in KNOWN_QUALITIES}
    \cup {<<"n", "o", " ", "s", "e", "c", "t", "i", "o", "n", "s", " ", "h", "e", "r", "e">>,
          <<"[", "V", "e", "r", "s", "e", "]", " ", "C", " ", "G", " ", "A", "m", " ", "F">>,
          <<"[", "V", "e", "r", "s", "e", "]", "\n", "C", " ", "G", " ", "A", "m", " ", "F">>,
          <<"[", "V", "e", "r", "s", "e", "]", " ", "C", "\n", "[", "C", "h", "o", "r", "u", "s", "]", " ", "G">>,
          <<"[", "V", "e", "r", "s", "e", "]", " ", "C", "\n", "A", "m", "\n", "[", "C", "h", "o", "r", "u", "s", "]", " ", "G", "\n", "x", "y", "z">>}

InitBacking ==
    /\ ParserIdle
    /\ FnIdle
    /\ LookupIdle
    /\ WorkflowIdle
    /\ bpc = "call"
    /\ bargs \in
         {Some([tool |-> "generate_backing_track", instruments |-> i,
                style |-> s, genre_override |-> g, bpm |-> b,
                chord_text |-> <<>>]) :
             i \in InstrumentInputs, s \in StyleInputs,
             g \in GenreOverrideInputs, b \in BpmOverrideInputs}
         \cup
         {Some([tool |-> "manual_chart", instruments |-> i,
                style |-> StyleGenre, genre_override |-> <<>>,
                bpm |-> ManualBpm, chord_text |-> t]) :
             i \in InstrumentInputs, t \in ChordTexts}
    /\ inst_list = <<>>
    /\ invalid = <<>>
    /\ lookup_calls = <<>>
    /\ bchart = None
    /\ bridge_calls = <<>>
    /\ result = None
    /\ bret = None
    /\ braised = None

(* generate_backing_track up to "await bridge.call_lua(...)" *)
GenerateBackingTrack ==
    /\ bpc = "call"
    /\ bargs[1].tool = "generate_backing_track"
    /\ LET a == bargs[1]
           list == InstList(a.instruments)
           bad == InvalidOf(list)
           genre == LookupGenre(a.style, a.genre_override)
       IN  /\ inst_list' = list
           /\ invalid' = bad
           /\ IF bad # <<>>
              THEN /\ bret' = Some(Message("Invalid instruments", bad,
                                           <<>>, 0))
                   /\ bpc' = "returned"
                   /\ UNCHANGED <<lookup_calls, bchart, bridge_calls,
                                  braised>>
              ELSE \E outcome \in LookupOutcomes :
                     /\ lookup_calls' =
                            <<[bpm |-> a.bpm, genre |-> genre,
                               outcome |-> outcome.kind]>>
                     /\ IF outcome.kind = "raises"
                        THEN /\ braised' = Some([type |-> "TypeError",
                                                 error |-> ""])
                             /\ bpc' = "raised"
                             /\ UNCHANGED <<bchart, bridge_calls, bret>>
                        ELSE IF outcome.kind = "none"
                        THEN /\ bret' = Some(Message(
                                            "Could not find chord chart",
                                            <<>>, <<>>, 0))
                             /\ bpc' = "returned"
                             /\ UNCHANGED <<bchart, bridge_calls, braised>>
                        ELSE LET c == Override(LookedUp(a.bpm, genre,
                                                        outcome.meta),
                                               a.bpm, a.genre_override)
                             IN  /\ bchart' = Some(c)
                                 /\ bridge_calls' =
                                        <<[chart |-> c, inst_list |-> list,
                                           style |-> a.style,
                                           genre_override |->
                                               a.genre_override]>>
                                 /\ bpc' = "bridge"
                                 /\ UNCHANGED <<bret, braised>>
    /\ UNCHANGED <<bargs, result>>
    /\ UNCHANGED <<parser_vars, fn_vars, lookup_vars, workflow_vars>>

(* manual_chart up to "await bridge.call_lua(...)" *)
ManualChart ==
    /\ bpc = "call"
    /\ bargs[1].tool = "manual_chart"
    /\ LET a == bargs[1]
           list == InstList(a.instruments)
           bad == InvalidOf(list)
       IN  /\ inst_list' = list
           /\ invalid' = bad
           /\ IF bad # <<>>
              THEN /\ bret' = Some(Message("Invalid instruments", bad,
                                           <<>>, 0))
                   /\ bpc' = "returned"
                   /\ UNCHANGED <<bchart, bridge_calls>>
              ELSE LET c == ChartDict(
                                parse_chord_chart(a.chord_text, Untitled,
                                                  Unknown, a.bpm, <<>>),
                                ChartBpm(a.bpm), None)
                   IN  /\ bchart' = Some(c)
                       /\ IF NoSections(c)
                          THEN /\ bret' = Some(Message("No sections found",
                                                       <<>>, <<>>, 0))
                               /\ bpc' = "returned"
                               /\ UNCHANGED bridge_calls
                          ELSE /\ bridge_calls' =
                                      <<[chart |-> c, inst_list |-> list,
                                         style |-> a.style,
                                         genre_override |-> <<>>]>>
                               /\ bpc' = "bridge"
                               /\ UNCHANGED bret
    /\ UNCHANGED <<bargs, lookup_calls, result, braised>>
    /\ UNCHANGED <<parser_vars, fn_vars, lookup_vars, workflow_vars>>

(* both tools from the reply of the bridge on: 'if result.get("ok")', the  *)
(* message of success or the exception.  ret.get raises when "ret" is      *)
(* null.                                                                   *)
BridgeReply ==
    /\ bpc = "bridge"
    /\ \E reply \in BridgeReplies :
         /\ result' = Some(reply)
         /\ IF Succeeded(reply)
            THEN IF reply.ret.kind = "null"
                 THEN /\ braised' = Some([type |-> "AttributeError",
                                          error |-> ""])
                      /\ bpc' = "raised"
                      /\ UNCHANGED bret
                 ELSE /\ bret' = Some(Message(
                                     IF bargs[1].tool = "manual_chart"
                                     THEN "Backing track generated from manual chart"
                                     ELSE "Backing track generated",
                                     TracksCreated(reply, inst_list),
                                     bchart[1].key, bchart[1].bpm))
                      /\ bpc' = "returned"
                      /\ UNCHANGED braised
            ELSE /\ braised' = Some([type |-> "Exception",
                                     error |-> ErrorText(reply)])
                 /\ bpc' = "raised"
                 /\ UNCHANGED bret
    /\ UNCHANGED <<bargs, inst_list, invalid, lookup_calls, bchart,
                   bridge_calls>>
    /\ UNCHANGED <<parser_vars, fn_vars, lookup_vars, workflow_vars>>

NextBacking ==
    \/ GenerateBackingTrack
    \/ ManualChart
    \/ BridgeReply

SpecBacking == InitBacking /\ [][NextBacking]_vars

(***************************************************************************)
(* server/tools/production_workflow.py: social_clip and                    *)
(* arrangement_template                                                    *)
(*                                                                         *)
(* Each tool is one action: between its calls of the bridge it keeps only  *)
(* local variables, and the replies of the bridge are its inputs.  Times   *)
(* are whole seconds; the regions of a template are counted in bars from   *)
(* the start, the length of a bar being the same for all of them.  wcalls  *)
(* records the calls made to the bridge, time_sel the time selection set   *)
(* for rendering, project_length the length read from the project.         *)
(***************************************************************************)
ARRANGEMENT_TEMPLATES == <<
    [genre |-> <<"p", "o", "p">>, name |-> "Pop",
     tempo_range |-> <<100, 130>>, default_tempo |-> 120,
     time_sig |-> <<4, 4>>,
     sections |-> <<
            [name |-> "Intro", bars |-> 4],
            [name |-> "Verse 1", bars |-> 8],
            [name |-> "Pre-Chorus", bars |-> 4],
            [name |-> "Chorus", bars |-> 8],
            [name |-> "Verse 2", bars |-> 8],
            [name |-> "Pre-Chorus", bars |-> 4],
            [name |-> "Chorus", bars |-> 8],
            [name |-> "Bridge", bars |-> 8],
            [name |-> "Chorus", bars |-> 8],
            [name |-> "Outro", bars |-> 4]>>],
    [genre |-> <<"r", "o", "c", "k">>, name |-> "Rock",
     tempo_range |-> <<110, 150>>, default_tempo |-> 130,
     time_sig |-> <<4, 4>>,
     sections |-> <<
            [name |-> "Intro", bars |-> 4],
            [name |-> "Verse 1", bars |-> 8],
            [name |-> "Chorus", bars |-> 8],
            [name |-> "Verse 2", bars |-> 8],
            [name |-> "Chorus", bars |-> 8],
            [name |-> "Solo", bars |-> 8],
            [name |-> "Chorus", bars |-> 8],
            [name |-> "Outro", bars |-> 4]>>],
    [genre |-> <<"b", "l", "u", "e", "s">>, name |-> "Blues",
     tempo_range |-> <<70, 120>>, default_tempo |-> 90,
     time_sig |-> <<4, 4>>,
     sections |-> <<
            [name |-> "Intro", bars |-> 4],
            [name |-> "Verse 1 (12-bar)", bars |-> 12],
            [name |-> "Verse 2 (12-bar)", bars |-> 12],
            [name |-> "Solo", bars |-> 12],
            [name |-> "Verse 3 (12-bar)", bars |-> 12],
            [name |-> "Outro", bars |-> 4]>>],
    [genre |-> <<"j", "a", "z", "z">>, name |-> "Jazz",
     tempo_range |-> <<100, 200>>, default_tempo |-> 140,
     time_sig |-> <<4, 4>>,
     sections |-> <<
            [name |-> "Head In", bars |-> 32],
            [name |-> "Solo 1", bars |-> 32],
            [name |-> "Solo 2", bars |-> 32],
            [name |-> "Trading 4s", bars |-> 16],
            [name |-> "Head Out", bars |-> 32]>>],
    [genre |-> <<"e", "d", "m">>, name |-> "EDM",
     tempo_range |-> <<120, 150>>, default_tempo |-> 128,
     time_sig |-> <<4, 4>>,
     sections |-> <<
            [name |-> "Intro", bars |-> 8],
            [name |-> "Build", bars |-> 8],
            [name |-> "Drop 1", bars |-> 16],
            [name |-> "Breakdown", bars |-> 8],
            [name |-> "Build", bars |-> 8],
            [name |-> "Drop 2", bars |-> 16],
            [name |-> "Outro", bars |-> 8]>>],
    [genre |-> <<"h", "i", "p", "h", "o", "p">>, name |-> "Hip-Hop",
     tempo_range |-> <<80, 110>>, default_tempo |-> 90,
     time_sig |-> <<4, 4>>,
     sections |-> <<
            [name |-> "Intro", bars |-> 4],
            [name |-> "Verse 1", bars |-> 16],
            [name |-> "Hook", bars |-> 8],
            [name |-> "Verse 2", bars |-> 16],
            [name |-> "Hook", bars |-> 8],
            [name |-> "Bridge", bars |-> 8],
            [name |-> "Hook", bars |-> 8],
            [name |-> "Outro", bars |-> 4]>>],
    [genre |-> <<"c", "o", "u", "n", "t", "r", "y">>, name |-> "Country",
     tempo_range |-> <<100, 140>>, default_tempo |-> 120,
     time_sig |-> <<4, 4>>,
     sections |-> <<
            [name |-> "Intro", bars |-> 4],
            [name |-> "Verse 1", bars |-> 8],
            [name |-> "Chorus", bars |-> 8],
            [name |-> "Verse 2", bars |-> 8],
            [name |-> "Chorus", bars |-> 8],
            [name |-> "Solo", bars |-> 8],
            [name |-> "Chorus", bars |-> 8],
            [name |-> "Tag/Outro", bars |-> 4]>>],
    [genre |-> <<"m", "e", "t", "a", "l">>, name |-> "Metal",
     tempo_range |-> <<130, 200>>, default_tempo |-> 160,
     time_sig |-> <<4, 4>>,
     sections |-> <<
            [name |-> "Intro", bars |-> 4],
            [name |-> "Verse 1", bars |-> 8],
            [name |-> "Pre-Chorus", bars |-> 4],
            [name |-> "Chorus", bars |-> 8],
            [name |-> "Verse 2", bars |-> 8],
            [name |-> "Pre-Chorus", bars |-> 4],
            [name |-> "Chorus", bars |-> 8],
            [name |-> "Breakdown", bars |-> 8],
            [name |-> "Solo", bars |-> 8],
            [name |-> "Chorus", bars |-> 8],
            [name |-> "Outro", bars |-> 4]>>],
    [genre |-> <<"f", "u", "n", "k">>, name |-> "Funk",
     tempo_range |-> <<95, 120>>, default_tempo |-> 108,
     time_sig |-> <<4, 4>>,
     sections |-> <<
            [name |-> "Intro", bars |-> 4],
            [name |-> "Groove 1", bars |-> 8],
            [name |-> "Verse 1", bars |-> 8],
            [name |-> "Chorus", bars |-> 8],
            [name |-> "Groove 2", bars |-> 4],
            [name |-> "Verse 2", bars |-> 8],
            [name |-> "Chorus", bars |-> 8],
            [name |-> "Breakdown", bars |-> 8],
            [name |-> "Chorus", bars |-> 8],
            [name |-> "Outro", bars |-> 4]>>],
    [genre |-> <<"b", "a", "l", "l", "a", "d">>, name |-> "Ballad",
     tempo_range |-> <<60, 85>>, default_tempo |-> 72,
     time_sig |-> <<4, 4>>,
     sections |-> <<
            [name |-> "Intro", bars |-> 4],
            [name |-> "Verse 1", bars |-> 8],
            [name |-> "Chorus", bars |-> 8],
            [name |-> "Verse 2", bars |-> 8],
            [name |-> "Chorus", bars |-> 8],
            [name |-> "Bridge", bars |-> 8],
            [name |-> "Chorus", bars |-> 8],
            [name |-> "Outro", bars |-> 8]>>]>>

(* "duration not in (15, 30, 60, 90)" *)
Durations == {15, 30, 60, 90}

(* a call of the bridge: the function and the arguments that matter *)
Call(f, name, from, to, bpm) ==
    [fn |-> f, name |-> name, from |-> from, to |-> to, bpm |-> bpm]

(* a message or an exception of the tools: its opening words, the range    *)
(* or the numbers it reports                                               *)
Report(kind, from, to) == [kind |-> kind, from |-> from, to |-> to]

Max(a, b) == IF a > b THEN a ELSE b

(* the replies of the bridge to social_clip.  A time selection is a pair   *)
(* of positions in the project, a cursor a position.                       *)
TimeSelReplies ==
    {[ok |-> FALSE, ret |-> None], [ok |-> TRUE, ret |-> None],
     [ok |-> TRUE, ret |-> Some(<<0, 0>>)],
     [ok |-> TRUE, ret |-> Some(<<10, 20>>)],
     [ok |-> TRUE, ret |-> Some(<<80, 90>>)]}
CursorReplies ==
    {[ok |-> FALSE, ret |-> 0], [ok |-> TRUE, ret |-> 0],
     [ok |-> TRUE, ret |-> 40], [ok |-> TRUE, ret |-> 95]}
LengthReplies ==
    {[ok |-> FALSE, ret |-> 0], [ok |-> TRUE, ret |-> 10],
     [ok |-> TRUE, ret |-> 45], [ok |-> TRUE, ret |-> 100]}

(* the arguments of the calls *)
DurationInputs == {15, 30, 45}
StartTimeInputs == {None, Some(-5), Some(0), Some(25), Some(70)}
OutputPathInputs == {"", "/tmp/clip.wav"}
TemplateGenreInputs ==
    {ARRANGEMENT_TEMPLATES[k].genre : k \in 1..Len(ARRANGEMENT_TEMPLATES)}
    \cup {<<" ", "R", "o", "c", "k", " ">>, <<"p", "o", "l", "k", "a">>}
TempoInputs == {None, Some(50), Some(120), Some(200)}

InitWorkflow ==
    /\ ParserIdle
    /\ FnIdle
    /\ LookupIdle
    /\ BackingIdle
    /\ wpc = "call"
    /\ wargs \in
         {Some([tool |-> "social_clip", duration |-> d, start_time |-> s,
                output_path |-> o, genre |-> <<>>, tempo |-> None]) :
             d \in DurationInputs, s \in StartTimeInputs,
             o \in OutputPathInputs}
         \cup
         {Some([tool |-> "arrangement_template", duration |-> 0,
                start_time |-> None, output_path |-> "", genre |-> g,
                tempo |-> t]) :
             g \in TemplateGenreInputs, t \in TempoInputs}
    /\ project_length = None
    /\ time_sel = None
    /\ wcalls = <<>>
    /\ wret = None
    /\ wraised = None

(* the start of the clip and the calls made to find it: start_time, or    *)
(* the start of the time selection when it is not empty, or the edit      *)
(* cursor; 0 when the bridge does not answer                              *)
RenderStart(start_time, sel, cursor) ==
    IF start_time # None
    THEN [at |-> start_time[1], calls |-> <<>>]
    ELSE LET get == <<Call("GetSet_LoopTimeRange", "get", 0, 0, 0)>>
             range == IF sel.ret = None THEN <<0, 0>> ELSE sel.ret[1]
         IN  IF ~sel.ok THEN [at |-> 0, calls |-> get]
             ELSE IF range[2] > range[1]
                  THEN [at |-> range[1], calls |-> get]
                  ELSE [at |-> IF cursor.ok THEN cursor.ret ELSE 0,
                        calls |-> Append(get, Call("GetCursorPosition", "",
                                                   0, 0, 0))]

(* "Clamp to project bounds": the range that is rendered *)
Clamp(render_start, duration, length) ==
    IF render_start + duration > length
    THEN <<Max(0, length - duration), length>>
    ELSE <<render_start, render_start + duration>>

SocialClip ==
    /\ wpc = "call"
    /\ wargs[1].tool = "social_clip"
    /\ LET a == wargs[1]
       IN  IF a.duration \notin Durations
           THEN /\ wret' = Some(Report("Invalid duration", a.duration, 0))
                /\ wpc' = "returned"
                /\ UNCHANGED <<project_length, time_sel, wcalls, wraised>>
           ELSE \E sel \in TimeSelReplies, cursor \in CursorReplies,
                   len \in LengthReplies, rendered \in BOOLEAN :
                  LET start == RenderStart(a.start_time, sel, cursor)
                      length == IF len.ok THEN len.ret ELSE 0
                      range == Clamp(start.at, a.duration, length)
                      found == Append(start.calls,
                                      Call("GetProjectLength", "", 0, 0, 0))
                  IN  /\ project_length' = Some(length)
                      /\ IF length < a.duration
                         THEN /\ wret' = Some(Report("shorter than", length,
                                                     a.duration))
                              /\ wpc' = "returned"
                              /\ wcalls' = found
                              /\ UNCHANGED <<time_sel, wraised>>
                         ELSE /\ time_sel' = Some(range)
                              /\ wcalls' =
                                   found
                                   \o <<Call("GetSet_LoopTimeRange", "set",
                                             range[1], range[2], 0),
                                        Call("GetSetProjectInfo",
                                             "RENDER_BOUNDSFLAG", 0, 0, 0)>>
                                   \o (IF a.output_path # ""
                                       THEN <<Call("GetSetProjectInfo_String",
                                                   "RENDER_FILE", 0, 0, 0)>>
                                       ELSE <<>>)
                                   \o <<Call("Main_OnCommand", "", 0, 0, 0)>>
                              /\ IF rendered
                                 THEN /\ wret' = Some(Report(
                                                   "Social clip export started",
                                                   range[1], range[2]))
                                      /\ wpc' = "returned"
                                      /\ UNCHANGED wraised
                                 ELSE /\ wraised' = Some(Report(
                                                   "Failed to start render",
                                                   0, 0))
                                      /\ wpc' = "raised"
                                      /\ UNCHANGED wret
    /\ UNCHANGED wargs
    /\ UNCHANGED <<parser_vars, fn_vars, lookup_vars, backing_vars>>

(* "ARRANGEMENT_TEMPLATES[genre_lower]", None for an unknown genre *)
Template(genre_lower) ==
    IF \E k \in 1..Len(ARRANGEMENT_TEMPLATES) :
           ARRANGEMENT_TEMPLATES[k].genre = genre_lower
    THEN Some(ARRANGEMENT_TEMPLATES[
                  CHOOSE k \in 1..Len(ARRANGEMENT_TEMPLATES) :
                      ARRANGEMENT_TEMPLATES[k].genre = genre_lower])
    ELSE None

(* "tempo if tempo is not None else template['default_tempo']" *)
TemplateBpm(template, tempo) ==
    IF tempo # None THEN tempo[1] ELSE template.default_tempo

(* "bpm < lo or bpm > hi" *)
OutOfRange(template, bpm) ==
    bpm < template.tempo_range[1] \/ bpm > template.tempo_range[2]

(* the bars before section k of the template *)
RECURSIVE BarsBefore(_, _)
BarsBefore(secs, k) ==
    IF k <= 1 THEN 0 ELSE secs[k - 1].bars + BarsBefore(secs, k - 1)

(* the calls of "for idx, section in enumerate(sections)" *)
RegionCalls(secs) ==
    [k \in 1..Len(secs) |->
        Call("AddProjectMarker2", secs[k].name, BarsBefore(secs, k),
             BarsBefore(secs, k) + secs[k].bars, 0)]

ArrangementTemplate ==
    /\ wpc = "call"
    /\ wargs[1].tool = "arrangement_template"
    /\ LET a == wargs[1]
           template == Template(Strip(Lower(a.genre)))
       IN  IF template = None
           THEN /\ wret' = Some(Report("Unknown genre", 0, 0))
                /\ UNCHANGED wcalls
           ELSE LET bpm == TemplateBpm(template[1], a.tempo)
                    secs == template[1].sections
                IN  IF OutOfRange(template[1], bpm)
                    THEN /\ wret' = Some(Report(
                                            "outside typical range",
                                            template[1].tempo_range[1],
                                            template[1].tempo_range[2]))
                         /\ UNCHANGED wcalls
                    ELSE \E marker_count \in {0, 1},
                            failed \in {{}, {1}, 1..Len(secs)} :
                           /\ wcalls' =
                                <<Call("CountTempoTimeSigMarkers", "", 0, 0,
                                       0),
                                  Call("SetTempoTimeSigMarker",
                                       IF marker_count > 0 THEN "modify"
                                       ELSE "create", 0, 0, bpm)>>
                                \o RegionCalls(secs)
                                \o <<Call("UpdateTimeline", "", 0, 0, 0)>>
                           /\ wret' = Some(Report(
                                  "Applied arrangement template", bpm,
                                  Len(secs) - Cardinality(failed)))
    /\ wpc' = "returned"
    /\ UNCHANGED <<wargs, project_length, time_sel, wraised>>
    /\ UNCHANGED <<parser_vars, fn_vars, lookup_vars, backing_vars>>

NextWorkflow ==
    \/ SocialClip
    \/ ArrangementTemplate

SpecWorkflow == InitWorkflow /\ [][NextWorkflow]_vars

(***************************************************************************)
(* Properties                                                              *)
(***************************************************************************)
IsChord(t) == t # Dot /\ CHORD_RE(t)

EndsWith(s, suffix) ==
    /\ Len(suffix) <= Len(s)
    /\ SubSeq(s, Len(s) - Len(suffix) + 1, Len(s)) = suffix

(* the nearest recognised chord before position i of the line ts, if any *)
NearestChord(ts, i) ==
    LET J == {j \in 1..(i - 1) : IsChord(ts[j])}
    IN  IF J = {} THEN None
        ELSE Some(ts[CHOOSE j \in J : \A k \in J : k <= j])

(* the step reads a header line / ends the text *)
ClosesSection == nhdr' # nhdr \/ (pc = "loop" /\ pc' = "done")

(* C1: a '.' that begins a chord line appends the chord X that ended the   *)
(* line before it in the same section.                                     *)
C1_DotRepeatsAcrossLines ==
    [][(pc = "tokens" /\ ti = 1 /\ tokens[1] = Dot /\ line_end_chord # None)
          => current_chords' = Append(current_chords, line_end_chord[1])]_vars

(* C2: every header under which at least one chord has been accumulated   *)
(* yields exactly one section when it is closed by the next header or by   *)
(* the end of the text, whatever its bracket contents.                     *)
C2_HeaderWithChordsEmitted ==
    [][(pc = "loop" /\ current_section # None /\ current_chords # <<>>
          /\ ClosesSection)
          => Len(sections') = Len(sections) + 1]_vars

(* C3: within a line a '.' appends one copy of the nearest recognised      *)
(* chord before it on that line, and nothing when there is none; the line  *)
(* 'Am . . .' adds four Am and 'Am . G7/B .' adds Am, Am, G7/B, G7/B.      *)
C3_RepeatWithinLine ==
    [][/\ (pc = "tokens" /\ tokens[ti] = Dot)
            => current_chords' = current_chords \o NearestChord(tokens, ti)
       /\ (pc = "tokens" /\ ti = Len(tokens) /\ tokens = <<Am, Dot, Dot, Dot>>)
            => EndsWith(current_chords', <<Am, Am, Am, Am>>)
       /\ (pc = "tokens" /\ ti = Len(tokens) /\ tokens = <<Am, Dot, G7B, Dot>>)
            => EndsWith(current_chords', <<Am, Am, G7B, G7B>>)]_vars

(* a line '. Am . G7/B' in progress: the first '.' added nothing, the      *)
(* second one a copy of Am                                                 *)
C3_Witness ==
    /\ pc = "tokens"
    /\ tokens = <<Dot, Am, Dot, G7B>>
    /\ ti = 4
    /\ current_chords = <<Am, Am>>

(* C4: a token that is neither '.' nor a chord leaves the chords and the   *)
(* previous chord as they are, and a '.' right after it repeats the chord  *)
(* that came before it.                                                    *)
C4_IgnoredTokenFrame ==
    [][/\ (pc = "tokens" /\ tokens[ti] # Dot /\ ~CHORD_RE(tokens[ti]))
            => (current_chords' = current_chords /\ prev_chord' = prev_chord)
       /\ (pc = "tokens" /\ ti >= 3 /\ tokens[ti] = Dot
             /\ tokens[ti - 1] # Dot /\ ~CHORD_RE(tokens[ti - 1])
             /\ IsChord(tokens[ti - 2]))
            => current_chords' = Append(current_chords, tokens[ti - 2])]_vars

(* 'Am xyz .' with xyz already passed over *)
C4_Witness ==
    /\ pc = "tokens"
    /\ tokens = <<Am, Junk, Dot>>
    /\ ti = 3
    /\ prev_chord = Some(Am)
    /\ current_chords = <<Am>>

(* C5: every emitted section has at least one chord. *)
C5_NoEmptySection ==
    \A i \in 1..Len(sections) : sections[i].chords # <<>>

(* the text has ended on a named header with no chord under it, after an   *)
(* earlier section was emitted                                             *)
C5_Witness ==
    /\ pc = "done"
    /\ nhdr = 2
    /\ current_section # None
    /\ current_section[1] # <<>>
    /\ current_chords = <<>>
    /\ Len(sections) = 1

(* C6: bars is the number of entries of chords, copies made by '.'         *)
(* included.                                                               *)
C6_BarsIsChordCount ==
    \A i \in 1..Len(sections) : sections[i].bars = Len(sections[i].chords)

(* a section holding a chord and its copy *)
C6_Witness ==
    /\ pc = "done"
    /\ \E i \in 1..Len(sections) :
          /\ sections[i].chords = <<Am, Am, G7B>>
          /\ sections[i].bars = 3

(* C7: as long as no header has been read nothing is accumulated and       *)
(* nothing is emitted, so a text without a header yields no section.       *)
C7_NothingBeforeFirstHeader ==
    nhdr = 0 => (sections = <<>> /\ current_chords = <<>>)

(* chord tokens were read before the first header and the text ended with  *)
(* one section of one chord                                                *)
C7_Witness ==
    /\ pc = "done"
    /\ pre_chords
    /\ ntoks >= 2
    /\ Len(sections) = 1
    /\ Len(sections[1].chords) = 1

(* C8: a section is emitted only by appending the open section, with its   *)
(* chords, after the sections emitted before; the chords of the open       *)
(* section change only by appending a token of the line at hand, or by     *)
(* the reset at a header.  Lines and tokens are read in text order, so     *)
(* both sequences are in the order of the text.                            *)
C8_TextOrder ==
    [][/\ sections' # sections
            => /\ Len(sections') = Len(sections) + 1
               /\ SubSeq(sections', 1, Len(sections)) = sections
               /\ sections'[Len(sections')].name = current_section[1]
               /\ sections'[Len(sections')].chords = current_chords
       /\ current_chords' # current_chords
            => \/ (current_chords' = <<>> /\ nhdr' = nhdr + 1)
               \/ /\ pc = "tokens"
                  /\ \E j \in 1..ti :
                        current_chords' = Append(current_chords, tokens[j])]_vars

(* two sections, the first with two different chords *)
C8_Witness ==
    /\ pc = "done"
    /\ Len(sections) = 2
    /\ sections[1].name # sections[2].name
    /\ sections[1].chords = <<Am, G7B>>
    /\ sections[2].chords = <<G7B>>

NoUpperNoSpace(name) ==
    \A k \in 1..Len(name) : name[k] \notin UpperLetters /\ name[k] # " "

EndsWithDigit(name) == name # <<>> /\ name[Len(name)] \in Digits

(* C9 as stated: no emitted name holds an uppercase letter or a space or   *)
(* ends with a digit.                                                      *)
C9_NameNeverEndsWithDigit ==
    \A i \in 1..Len(sections) :
        NoUpperNoSpace(sections[i].name) /\ ~EndsWithDigit(sections[i].name)

(* the names the bracket contents of the texts give *)
ExpectedName(raw) ==
    CASE raw = VERSE1 -> <<"v", "e", "r", "s", "e">>
      [] raw = PreChorus -> <<"p", "r", "e", "-", "c", "h", "o", "r", "u", "s">>
      [] raw = <<"A", " ", "1", " ", "2">> -> <<"a", "-", "1">>
      [] raw = <<"1", "2">> -> <<>>
      [] raw = <<" ">> -> <<>>

(* C9, amended: the name of the open section is its header's bracket       *)
(* contents lower-cased, stripped, with the last run of digits (and the    *)
(* whitespace before it) removed and spaces replaced by hyphens; no        *)
(* emitted name holds an uppercase letter or a space, and a name ends with *)
(* a digit only when a digit is left before the run that was removed.      *)
C9_NameNormalized ==
    /\ nhdr >= 1 => current_section = Some(ExpectedName(hdr_raw))
    /\ \A i \in 1..Len(sections) :
          /\ NoUpperNoSpace(sections[i].name)
          /\ \E raw \in HeaderContents : sections[i].name = ExpectedName(raw)
          /\ EndsWithDigit(sections[i].name)
                => sections[i].name = <<"a", "-", "1">>

(* '[VERSE 1]' and '[A 1 2]' each emitted a section *)
C9_Witness ==
    /\ pc = "done"
    /\ Len(sections) = 2
    /\ sections[1].name = <<"v", "e", "r", "s", "e">>
    /\ sections[2].name = <<"a", "-", "1">>

(* C10: every chord of every section, emitted or open, matches the chord   *)
(* grammar and is not '.', and a chord is added only as a copy, character  *)
(* for character, of a token of the line at hand.                          *)
C10_ChordsAreInputTokens ==
    /\ [](/\ \A i \in 1..Len(sections) :
               \A j \in 1..Len(sections[i].chords) :
                   IsChord(sections[i].chords[j])
          /\ \A j \in 1..Len(current_chords) : IsChord(current_chords[j]))
    /\ [][(current_chords' # current_chords /\ current_chords' # <<>>)
             => /\ pc = "tokens"
                /\ \E j \in 1..ti :
                      /\ IsChord(tokens[j])
                      /\ current_chords' = Append(current_chords, tokens[j])]_vars

(* a slash chord with an extension was emitted as written, with its copy,  *)
(* from a text of three tokens                                             *)
C10_Witness ==
    /\ pc = "done"
    /\ ntoks = 3
    /\ Len(sections) = 1
    /\ sections[1].chords = <<G7B, G7B>>

(* the chords of all emitted sections, in order *)
RECURSIVE Concatenation(_, _)
Concatenation(secs, n) ==
    IF n = 0 THEN <<>> ELSE Concatenation(secs, n - 1) \o secs[n].chords

C12_BpmPositive ==
    pc = "done" =>
       /\ chart[1].bpm > 0
       /\ args[1].bpm = 0 => chart[1].bpm = 120
       /\ args[1].bpm > 0 => chart[1].bpm = args[1].bpm

(* C13: parse_chord_chart never raises and returns a chart for every text: *)
(* every line and every token read is handled by a branch of the loop      *)
(* until the text ends, and the chart returned then holds the (possibly    *)
(* empty) list of sections.                                                *)
C13_TotalOnEveryText ==
    /\ pc \in {"loop", "tokens", "done"}
    /\ pc # "done" => ENABLED Next
    /\ pc = "done" => (chart # None /\ chart[1].sections = sections)

(* a text of headers without chords and of unrecognised tokens only,       *)
(* returned with no section                                                *)
C13_Witness ==
    /\ pc = "done"
    /\ nhdr >= 1
    /\ ntoks >= 1
    /\ Len(current_chords) = 0
    /\ chart[1].sections = <<>>
(* the score of entry k of the key table on the reduced chords rs *)
ScoreOf(rs, k) ==
    Cardinality({i \in 1..Len(rs) : rs[i] \in KEY_WEIGHTS[k].scale_chords})

KeyOrder == << <<"C">>, <<"G">>, <<"D">>, <<"A">>, <<"E">>, <<"F">>,
               <<"B", "b">>, <<"A", "m">>, <<"E", "m">>, <<"D", "m">> >>

(* C14: detect_key returns the first key, in the table order C, G, D, A,   *)
(* E, F, Bb, Am, Em, Dm, whose score is maximal, the score of a key being  *)
(* the number of reduced input chords, duplicates counted, that are in the *)
(* key's chord set; so 'C' for an empty list and when every key scores 0,  *)
(* 'Am' for [Am, G, F, E] and 'C' for [C, G, Am, F].                       *)
C14_FirstKeyOfMaximalScore ==
    fn = "detect_key" =>
       /\ [k \in 1..Len(KEY_WEIGHTS) |-> KEY_WEIGHTS[k].key] = KeyOrder
       /\ \E k \in 1..Len(KeyOrder) :
             /\ ret = Some(KeyOrder[k])
             /\ \A j \in 1..Len(KeyOrder) : ScoreOf(roots, j) <= ScoreOf(roots, k)
             /\ \A j \in 1..(k - 1) : ScoreOf(roots, j) < ScoreOf(roots, k)
       /\ chords = <<>> => ret = Some(<<"C">>)
       /\ (\A j \in 1..Len(KeyOrder) : ScoreOf(roots, j) = 0)
             => ret = Some(<<"C">>)
       /\ chords = << <<"A", "m">>, <<"G">>, <<"F">>, <<"E">> >>
             => ret = Some(<<"A", "m">>)
       /\ chords = << <<"C">>, <<"G">>, <<"A", "m">>, <<"F">> >>
             => ret = Some(<<"C">>)

(* [C, G, Am, F]: C and Am both score 4 and C, the earlier one, is the     *)
(* result                                                                  *)
C14_Witness ==
    /\ fn = "detect_key"
    /\ chords = << <<"C">>, <<"G">>, <<"A", "m">>, <<"F">> >>
    /\ ScoreOf(roots, 1) = 4
    /\ ScoreOf(roots, 8) = 4
    /\ ret = Some(<<"C">>)

(* what a chord counts as when only its root and a bare minor marker are   *)
(* kept: None for a chord without a root                                   *)
CountsAs(c) ==
    IF c \in {<<"C">>, <<"C", "7">>, <<"C", "m", "a", "j", "7">>,
              <<"C", "s", "u", "s", "4">>, <<"C", "/", "E">>}
    THEN Some(<<"C">>)
    ELSE IF c \in {<<"A", "m">>, <<"A", "m", "7">>, <<"A", "m", "/", "G">>}
         THEN Some(<<"A", "m">>)
         ELSE IF c \in {<<"G">>, <<"F">>, <<"E">>} THEN Some(c) ELSE None

RECURSIVE CountedAs(_)
CountedAs(cs) ==
    IF cs = <<>> THEN <<>> ELSE CountsAs(Head(cs)) \o CountedAs(Tail(cs))

(* C15: for scoring, each chord is reduced to its root plus a bare minor   *)
(* marker whatever its quality, extension, alteration or slash bass: C,    *)
(* C7, Cmaj7, Csus4 and C/E all count as 'C', and Am, Am7 and Am/G all     *)
(* count as 'Am'.                                                          *)
C15_QualityDoesNotCount ==
    fn = "detect_key" => roots = CountedAs(chords)

(* the position of the first '/' of s, or Len(s) + 1 when there is none *)
FirstSlash(s) ==
    IF HasSlash(s)
    THEN CHOOSE i \in 1..Len(s) : s[i] = "/" /\ \A j \in 1..(i - 1) : s[j] # "/"
    ELSE Len(s) + 1

(* r is the root at the start of c: a note letter, with the accidental     *)
(* that follows it when there is one                                       *)
IsRootOf(r, c) ==
    /\ Len(r) \in 1..2
    /\ Len(r) <= Len(c)
    /\ SubSeq(c, 1, Len(r)) = r
    /\ r[1] \in NoteLetters
    /\ Len(r) = 2 => r[2] \in Accidentals
    /\ Len(r) = 1 => (Len(c) = 1 \/ c[2] \notin Accidentals)

(* C16: for every slash-free chord made of a root (A-G with optional b or  *)
(* #) followed by a quality, simplify_chord returns the chord unchanged    *)
(* when the quality is in the allow-list and the bare root otherwise:      *)
(* 'Cmaj7' stays 'Cmaj7', 'Gadd9#11b13' becomes 'G'.                       *)
C16_KnownQualityKeptElseRoot ==
    (fn = "simplify_chord" /\ ~HasSlash(chord)) =>
       /\ \A r \in InputRoots \cup {<<n>> : n \in NoteLetters} :
             IsRootOf(r, chord) =>
                LET quality == SubSeq(chord, Len(r) + 1, Len(chord))
                IN  ret = Some(IF quality \in KNOWN_QUALITIES THEN chord ELSE r)
       /\ chord = <<"C", "m", "a", "j", "7">> => ret = Some(chord)
       /\ chord = <<"G", "a", "d", "d", "9", "#", "1", "1", "b", "1", "3">>
             => ret = Some(<<"G">>)

(* 'Gadd9#11b13' reduced to 'G' *)
C16_Witness ==
    /\ fn = "simplify_chord"
    /\ chord = <<"G", "a", "d", "d", "9", "#", "1", "1", "b", "1", "3">>
    /\ ret = Some(<<"G">>)

(* C17: the result of simplify_chord never contains '/': for every slash   *)
(* chord X/Y it is simplify_chord(X), the bass note is not attached again. *)
C17_NoSlashInResult ==
    fn = "simplify_chord" =>
       /\ ~HasSlash(ret[1])
       /\ HasSlash(chord) =>
             ret[1] = simplify_chord(SubSeq(chord, 1, FirstSlash(chord) - 1))

(* 'Bbm7/F#' simplified to 'Bbm7' *)
C17_Witness ==
    /\ fn = "simplify_chord"
    /\ chord = <<"B", "b", "m", "7", "/", "F", "#">>
    /\ ret = Some(<<"B", "b", "m", "7">>)

(* C18 as stated: every token that does not start with a root note (A-G)  *)
(* is returned by simplify_chord unchanged, character for character,       *)
(* tokens containing '/' included.                                         *)
C18_NonChordUnchanged ==
    (fn = "simplify_chord" /\ (chord = <<>> \/ chord[1] \notin NoteLetters))
       => ret = Some(chord)

(* C18 amended: for every token that does not start with a root note       *)
(* (A-G), simplify_chord returns the characters before the first '/' of    *)
(* the token unchanged: the whole token when it has no '/', and without    *)
(* the '/' and what follows it otherwise ('x/E' gives 'x').                *)
C18_NonChordKeptUpToSlash ==
    (fn = "simplify_chord" /\ (chord = <<>> \/ chord[1] \notin NoteLetters))
       => /\ ret = Some(SubSeq(chord, 1, FirstSlash(chord) - 1))
          /\ ~HasSlash(chord) => ret = Some(chord)

(* 'xm7/E' returned as 'xm7' *)
C18_Witness ==
    /\ fn = "simplify_chord"
    /\ chord = <<"x", "m", "7", "/", "E">>
    /\ ret = Some(<<"x", "m", "7">>)

(* C19 as stated: extract_bass_note returns no value exactly when the      *)
(* token has no '/', and otherwise all the characters after the first '/'. *)
C19_WholeSubstringAfterSlash ==
    fn = "extract_bass_note" =>
       /\ ret = None <=> ~HasSlash(chord)
       /\ HasSlash(chord) =>
             ret = Some(SubSeq(chord, FirstSlash(chord) + 1, Len(chord)))

(* C19 amended: extract_bass_note returns no value exactly when the token  *)
(* has no '/', and otherwise the characters between the first '/' and the  *)
(* next '/', or the end of the token when there is no second '/': 'E' for  *)
(* 'C/E' and for 'C/E/G', '' for 'C/'.                                     *)
C19_FieldAfterFirstSlash ==
    fn = "extract_bass_note" =>
       /\ ret = None <=> ~HasSlash(chord)
       /\ HasSlash(chord) =>
             LET rest == SubSeq(chord, FirstSlash(chord) + 1, Len(chord))
             IN  ret = Some(SubSeq(rest, 1, FirstSlash(rest) - 1))

(* 'C/E/G', whose bass note is 'E' *)
C19_Witness ==
    /\ fn = "extract_bass_note"
    /\ chord = <<"C", "/", "E", "/", "G">>
    /\ ret = Some(<<"E">>)
(* the search failed: the request, the page, or a results field that is    *)
(* missing or is no list of dicts                                          *)
SearchFailed(reply) ==
    \/ reply.outcome \in FailedReplies
    \/ /\ reply.outcome = "found"
       /\ \/ reply.results.kind # "list"
          \/ \E i \in 1..Len(reply.results.items) :
                reply.results.items[i].kind # "dict"

(* the chord-page fetch failed: the request, the page, or a content that   *)
(* is missing or no string, or a meta that is missing or no dict           *)
ChordPageFailed(reply) ==
    \/ reply.outcome \in FailedReplies
    \/ /\ reply.outcome = "found"
       /\ \/ reply.content.kind # "str"
          \/ reply.meta.kind # "dict"

(* C20: lookup_song never raises, and returns None whenever the search or  *)
(* the chord-page fetch fails: a status other than 200, a request          *)
(* exception or timeout, a page without the js-store data, undecodable     *)
(* JSON, or decoded JSON whose expected fields (results, tab_view,         *)
(* wiki_tab content, meta) are missing or have an unexpected type.         *)
C20_FailureGivesNone ==
    /\ lpc # "raised"
    /\ (lpc = "returned" /\ search_page # None /\ SearchFailed(search_page[1]))
          => lresult = None
    /\ (lpc = "returned" /\ chord_page # None /\ ChordPageFailed(chord_page[1]))
          => lresult = None
(* C21: lookup_song chooses the chart's bpm by strict precedence: a        *)
(* non-zero bpm argument, else a non-zero bpm of the scraped metadata,     *)
(* else the genre tempo estimate when a genre is given, else 120; a        *)
(* scraped bpm is never overridden by the genre estimate.                  *)
C21_BpmPrecedence ==
    (lpc = "returned" /\ lresult # None) =>
       LET a == largs[1]
           m == scraped[1].meta
           has_meta_bpm == m.bpm # None /\ m.bpm[1] # 0
       IN  /\ a.bpm # 0 => lresult[1].bpm = a.bpm
           /\ (a.bpm = 0 /\ has_meta_bpm) => lresult[1].bpm = m.bpm[1]
           /\ (a.bpm = 0 /\ ~has_meta_bpm /\ a.genre # <<>>)
                 => /\ lresult[1].bpm = estimate_tempo(a.genre)
                    /\ a.genre = <<"b", "l", "u", "e", "s">>
                          => lresult[1].bpm = 90
                    /\ a.genre = <<"R", "o", "c", "k">> => lresult[1].bpm = 120
           /\ (a.bpm = 0 /\ ~has_meta_bpm /\ a.genre = <<>>)
                 => lresult[1].bpm = 120

(* no bpm argument, a scraped bpm of 95 and the genre blues (90): the      *)
(* chart has 95                                                            *)
C21_Witness ==
    /\ lpc = "returned"
    /\ lresult # None
    /\ largs[1].bpm = 0
    /\ largs[1].genre = <<"b", "l", "u", "e", "s">>
    /\ scraped[1].meta.bpm = Some(95)
    /\ lresult[1].bpm = 95

(* the rating a result is sorted by: 0 when it has none *)
RatingOf(r) == IF r.rating.k = "number" THEN r.rating.n ELSE 0

(* C22: whenever search_ultimate_guitar returns on a list of results, it   *)
(* returns the URL of a result of type 'Chords' whose rating is maximal    *)
(* among the 'Chords' results, the earliest such result on ties; never     *)
(* that of a result of another type, even one with a higher rating; and    *)
(* None when there is no 'Chords' result.                                  *)
C22_BestChordsResult ==
    (/\ lpc \in {"scrape", "returned"}
     /\ search_page # None
     /\ search_page[1].outcome = "found"
     /\ search_page[1].results.kind = "list") =>
       LET items == search_page[1].results.items
           C == {i \in 1..Len(items) : items[i].type = "Chords"}
       IN  /\ C = {} => url = None
           /\ C # {} =>
                 \E i \in C :
                    /\ url = items[i].url
                    /\ \A j \in C : RatingOf(items[j]) <= RatingOf(items[i])
                    /\ \A j \in C : j < i => RatingOf(items[j]) < RatingOf(items[i])

(* a 'Tabs' result rated 2 before a 'Chords' result rated 1: the URL of    *)
(* the 'Chords' result is returned                                         *)
C22_Witness ==
    /\ lpc = "scrape"
    /\ search_page # None
    /\ search_page[1].outcome = "found"
    /\ search_page[1].results.kind = "list"
    /\ Len(search_page[1].results.items) = 2
    /\ search_page[1].results.items[1].type = "Tabs"
    /\ search_page[1].results.items[1].rating = [k |-> "number", n |-> 2]
    /\ search_page[1].results.items[1].url = Some(<<"u", "1">>)
    /\ search_page[1].results.items[2].type = "Chords"
    /\ search_page[1].results.items[2].rating = [k |-> "number", n |-> 1]
    /\ search_page[1].results.items[2].url = Some(<<"u", "2">>)
    /\ url = Some(<<"u", "2">>)

(***************************************************************************)
(* generate_backing_track and manual_chart                                 *)
(***************************************************************************)
IsValidInstrument(i) ==
    \E k \in 1..Len(VALID_INSTRUMENTS) : VALID_INSTRUMENTS[k] = i

Generating == bargs # None /\ bargs[1].tool = "generate_backing_track"
Charting == bargs # None /\ bargs[1].tool = "manual_chart"

(* the requested instruments, as the tools read them *)
Requested == InstList(bargs[1].instruments)

(* C23: generate_backing_track calls the bridge at most once, and only     *)
(* after every requested instrument was found valid and lookup_song        *)
(* returned a chart.  With an invalid instrument it returns the message    *)
(* 'Invalid instruments' naming every invalid one and calls neither        *)
(* lookup_song nor the bridge; when lookup_song returns None it returns    *)
(* the message 'Could not find chord chart' and does not call the bridge.  *)
C23_BridgeAfterValidationAndChart ==
    (Generating /\ bpc # "call") =>
        /\ Len(bridge_calls) <= 1
        /\ bridge_calls # <<>> =>
               /\ \A i \in 1..Len(Requested) : IsValidInstrument(Requested[i])
               /\ Len(lookup_calls) = 1
               /\ lookup_calls[1].outcome = "found"
        /\ (\E i \in 1..Len(Requested) : ~IsValidInstrument(Requested[i])) =>
               /\ bret # None
               /\ bret[1].kind = "Invalid instruments"
               /\ \A i \in 1..Len(Requested) :
                      ~IsValidInstrument(Requested[i]) =>
                          \E j \in 1..Len(bret[1].names) :
                              bret[1].names[j] = Requested[i]
               /\ lookup_calls = <<>>
               /\ bridge_calls = <<>>
        /\ (lookup_calls # <<>> /\ lookup_calls[1].outcome = "none") =>
               /\ bret # None
               /\ bret[1].kind = "Could not find chord chart"
               /\ bridge_calls = <<>>

(* generate_backing_track has returned 'Invalid instruments' for a request *)
(* with two invalid instruments                                            *)
C23_Witness ==
    /\ Generating
    /\ bpc = "returned"
    /\ bret[1].kind = "Invalid instruments"
    /\ Cardinality({i \in 1..Len(Requested) :
                       ~IsValidInstrument(Requested[i])}) = 2
    /\ bridge_calls = <<>>

Generated ==
    {"Backing track generated", "Backing track generated from manual chart"}

(* C24: when the bridge replies with ok=false, generate_backing_track and  *)
(* manual_chart raise an exception that carries the error text of the      *)
(* bridge and return no message; a message of success is returned only     *)
(* after a reply with ok=true.                                             *)
C24_FailureRaises ==
    /\ (result # None /\ result[1].ok = "false") =>
           /\ bpc = "raised"
           /\ bret = None
           /\ braised # None
           /\ braised[1].type = "Exception"
           /\ result[1].error # None =>
                  braised[1].error = result[1].error[1]
    /\ (bret # None /\ bret[1].kind \in Generated) =>
           /\ result # None
           /\ result[1].ok = "true"

(* the bridge has replied ok=false with an error text to manual_chart *)
C24_Witness ==
    /\ Charting
    /\ result # None
    /\ result[1].ok = "false"
    /\ result[1].error # None
    /\ bpc = "raised"

C28_GenreOverridePassed ==
    (Generating /\ lookup_calls # <<>>) =>
        lookup_calls[1].genre =
            IF bargs[1].genre_override # <<>> THEN bargs[1].genre_override
            ELSE IF bargs[1].style # StyleGenre THEN bargs[1].style
                 ELSE <<>>

(***************************************************************************)
(* social_clip and arrangement_template                                    *)
(***************************************************************************)
Clipping == wargs # None /\ wargs[1].tool = "social_clip"
Arranging == wargs # None /\ wargs[1].tool = "arrangement_template"

(* C26: whenever social_clip sets a time selection for rendering, the      *)
(* selection lies within the project (0 <= start and end <= project        *)
(* length) and is as long as the requested duration, wherever the start    *)
(* came from; when the project is shorter than the duration no selection   *)
(* is set and the message 'shorter than' is returned.                      *)
C26_SelectionWithinProject ==
    Clipping =>
        /\ time_sel # None =>
               /\ 0 <= time_sel[1][1]
               /\ time_sel[1][2] <= project_length[1]
               /\ time_sel[1][2] - time_sel[1][1] = wargs[1].duration
        /\ (project_length # None
            /\ project_length[1] < wargs[1].duration) =>
               /\ time_sel = None
               /\ wret # None
               /\ wret[1].kind = "shorter than"

(* the number of calls of the function f among the calls cs *)
CallsOf(cs, f) == Cardinality({i \in 1..Len(cs) : cs[i].fn = f})

(* C27: with a tempo outside the typical range of the genre,               *)
(* arrangement_template reports the tempo as out of range and goes on:     *)
(* it sets the tempo marker of the project and creates one region for      *)
(* each section of the template.                                           *)
C27_OutOfRangeProceeds ==
    (Arranging /\ wpc # "call"
     /\ Template(Strip(Lower(wargs[1].genre))) # None) =>
        LET template == Template(Strip(Lower(wargs[1].genre)))[1]
            bpm == TemplateBpm(template, wargs[1].tempo)
        IN  OutOfRange(template, bpm) =>
                /\ wret # None
                /\ wret[1].kind = "outside typical range"
                /\ \E i \in 1..Len(wcalls) :
                       /\ wcalls[i].fn = "SetTempoTimeSigMarker"
                       /\ wcalls[i].bpm = bpm
                /\ CallsOf(wcalls, "AddProjectMarker2")
                       = Len(template.sections)

(* the tokens of the lines of ls that are no section header and count as   *)
(* a chord or a repeat                                                     *)
RECURSIVE ChordTokensOffHeaders(_)
ChordTokensOffHeaders(ls) ==
    IF ls = <<>> THEN 0
    ELSE LET line == Strip(Head(ls))
             ts == Split(line)
         IN  (IF SECTION_RE(line) # None THEN 0
              ELSE Cardinality({i \in 1..Len(ts) :
                                   ts[i] = Dot \/ _is_chord_token(ts[i])}))
             + ChordTokensOffHeaders(Tail(ls))

(* the chord tokens that follow a header on its line *)
RECURSIVE ChordTokensOnHeaders(_)
ChordTokensOnHeaders(ls) ==
    IF ls = <<>> THEN 0
    ELSE LET line == Strip(Head(ls))
             m == SECTION_RE(line)
             ts == IF m = None THEN <<>>
                   ELSE Split(SubSeq(line, Len(m[1]) + 3, Len(line)))
         IN  Cardinality({i \in 1..Len(ts) : _is_chord_token(ts[i])})
             + ChordTokensOnHeaders(Tail(ls))

RECURSIVE TotalChords(_)
TotalChords(secs) ==
    IF secs = <<>> THEN 0
    ELSE Len(Head(secs).chords) + TotalChords(Tail(secs))

(* C29: the chord tokens that follow a section header on its line are not  *)
(* added to any section: the sections hold no more chords than the other   *)
(* lines have chord tokens, and a text whose chords all sit on header      *)
(* lines yields no section.                                                *)
C29_HeaderLineChordsDropped ==
    (Charting /\ bchart # None) =>
        LET ls == SplitLines(bargs[1].chord_text)
        IN  /\ TotalChords(bchart[1].sections) <= ChordTokensOffHeaders(ls)
            /\ ChordTokensOffHeaders(ls) = 0 => bchart[1].sections = <<>>

(* manual_chart has parsed a text with chords on its header line only *)
C29_Witness ==
    /\ Charting
    /\ bchart # None
    /\ ChordTokensOnHeaders(SplitLines(bargs[1].chord_text)) > 0
    /\ ChordTokensOffHeaders(SplitLines(bargs[1].chord_text)) = 0
    /\ bchart[1].sections = <<>>

(* C30: for every root and every quality of KNOWN_QUALITIES, the token     *)
(* root+quality in a section is recognised as a chord by                   *)
(* parse_chord_chart and is among the chords of the section.               *)
C30_GrammarCoversKnownQualities ==
    \A r \in AllRoots, qual \in KNOWN_QUALITIES :
        (Charting /\ bchart # None
         /\ bargs[1].chord_text = OneToken(r \o qual)) =>
            \E i \in 1..Len(bchart[1].sections) :
                \E j \in 1..Len(bchart[1].sections[i].chords) :
                    bchart[1].sections[i].chords[j] = r \o qual

====
